---- MODULE Spec2Model ----
(***************************************************************************)
(* Verification model of github.com/ftl/tetra-pei.                         *)
(*                                                                         *)
(* Part 1: the AT transport of package com (com.go): the line channel fed  *)
(* by readLoop, the COM loop goroutine started by New, the AT callers and  *)
(* the indication handlers.                                                *)
(*                                                                         *)
(* Lines, requests and prefixes are sequences of one-character strings so  *)
(* that strings.ToUpper, strings.TrimSpace and strings.HasPrefix are       *)
(* computed, not assumed.                                                  *)
(***************************************************************************)
EXTENDS Integers, Sequences, FiniteSets, TLC

(***************************************************************************)
(* Bounds of the model.                                                    *)
(***************************************************************************)
\* number of lines the device sends before it falls silent
MaxLines == 2

\* the goroutines of the application that call COM.AT; each of them issues
\* any number of calls, one after the other
Callers == {1, 2}

\* activeCommand = NoCommand is the nil pointer; Orphan is a command whose AT
\* call has returned while the loop still points to it (its caller has since
\* built a new command)
NoCommand == 0
Orphan == Cardinality(Callers) + 1

(***************************************************************************)
(* Strings.                                                                *)
(***************************************************************************)
LowerChars == <<"a","b","c","d","e","f","g","h","i","j","k","l","m",
                "n","o","p","q","r","s","t","u","v","w","x","y","z">>
UpperChars == <<"A","B","C","D","E","F","G","H","I","J","K","L","M",
                "N","O","P","Q","R","S","T","U","V","W","X","Y","Z">>

ToUpperCh(ch) ==
    IF \E i \in 1..Len(LowerChars) : LowerChars[i] = ch
    THEN UpperChars[CHOOSE i \in 1..Len(LowerChars) : LowerChars[i] = ch]
    ELSE ch

\* strings.ToUpper
ToUpper(s) == [i \in 1..Len(s) |-> ToUpperCh(s[i])]

\* the white space strings.TrimSpace removes, as far as it can occur in a line
IsSpace(ch) == ch \in {" ", "\t", "\r", "\n"}

SetMin(S) == CHOOSE x \in S : \A y \in S : x <= y
SetMax(S) == CHOOSE x \in S : \A y \in S : x >= y

\* strings.TrimSpace
TrimSpace(s) ==
    LET keep == {i \in 1..Len(s) : ~IsSpace(s[i])}
    IN  IF keep = {} THEN <<>> ELSE SubSeq(s, SetMin(keep), SetMax(keep))

RemoveAt(s, i) == SubSeq(s, 1, i - 1) \o SubSeq(s, i + 1, Len(s))

\* strings.HasPrefix
HasPrefix(s, p) == Len(p) <= Len(s) /\ SubSeq(s, 1, Len(p)) = p

(***************************************************************************)
(* The lines the scripted device may send and the requests callers issue.  *)
(***************************************************************************)
LineOkLower == <<" ","o","k"," ">>
LineOKAY    == <<"O","K","A","Y">>
LineError   == <<"E","r","r","o","r"," ","1">>
LineCME     == <<"+","C","M","E"," ","E","R","R","O","R",":"," ","3","5">>
LineCMS     == <<"+","c","m","s"," ","e","r","r","o","r">>
LineInd0    == <<"i","n","d","0",":","m">>
LineInd1    == <<"I","n","d","1",":","h">>
LineInd2    == <<"I","N","D","2",":","h">>

DeviceLines == {LineOkLower, LineOKAY, LineError, LineCME, LineCMS,
                LineInd0, LineInd1, LineInd2}

\* what readLoop may find between two line feeds: a line or nothing
RawLines == DeviceLines \cup {<<>>}

ReqAT    == <<"A","T">>
ReqEmpty == <<>>
Requests == {ReqAT, ReqEmpty}

CR == "\r"
LF == "\n"

(***************************************************************************)
(* The indication registry.                                                *)
(***************************************************************************)
\* COM.AddIndication: the config is stored under its upper-cased prefix
AddIndication(m, prefix, trailingLines, handler) ==
    LET key == ToUpper(prefix)
    IN  [p \in (DOMAIN m) \cup {key} |->
            IF p = key
            THEN [prefix |-> key, trailingLines |-> trailingLines, handler |-> handler]
            ELSE m[p]]

NoIndications == [p \in {} |-> [prefix |-> <<>>, trailingLines |-> 0, handler |-> ""]]

\* the registrations of TestCOM_Indications
TestRegistry ==
    AddIndication(
      AddIndication(
        AddIndication(NoIndications, <<"I","n","d","0",":">>, 0, "h0"),
        <<"I","n","d","1",":">>, 1, "h1"),
      <<"I","n","d","2",":">>, 2, "h2")

\* registrations of which one prefix is a prefix of another
OverlapRegistry ==
    AddIndication(
      AddIndication(
        AddIndication(
          AddIndication(NoIndications, <<"I","n","d","0">>, 0, "ha"),
          <<"I","n","d","0",":">>, 0, "h0"),
        <<"I","n","d","1">>, 1, "hb"),
      <<"I","n","d","1",":">>, 1, "h1")

\* the test in indicationConfig.NewIfMatches
Matches(config, line) == HasPrefix(ToUpper(line), config.prefix)

\* variant: an indication that counts one line too few
IndCompleteEarly(config, lines) == Len(lines) >= config.trailingLines

\* indication.Complete
IndComplete(config, lines) == Len(lines) >= config.trailingLines + 1

Nil == [nil |-> TRUE]

VARIABLES
    lines,            \* the channel readLoop sends to (capacity 1)
    linesClosed,      \* close(lines) was executed
    emitted,          \* number of lines readLoop has sent
    loopPc,           \* "select" | "inHandler" | "exited": position of the COM loop
    cont,             \* while inHandler: the line being classified and the matching prefixes not yet visited
    activeCommand,    \* NoCommand, Orphan or the caller whose command is active
    commandCancelled, \* the command whose cancellation channel the loop selects on (NoCommand: nil channel)
    activeIndication, \* Nil or [config, lines]
    closed,           \* COM.closed is closed
    indications,      \* COM.indications
    pc,               \* per caller: "idle" | "sending" | "waiting" | "done"
    request,          \* per caller, of its current command: command.request
    ctxDone,          \* the ctx.Done() channel of the call is closed
    response,         \* the command.response channel (capacity 1)
    err,              \* the command.err channel (capacity 1)
    completed,        \* command.completed is closed
    cmdLines,         \* command.lines
    written,          \* the Write calls the device received for the command
    result,           \* per caller: what its last AT call returned
    running,          \* the handler invocations that have not returned yet, in order of their start
    csPc,             \* ClearSyntaxErrors: "idle" | "running" | "returned"
    csCalls,          \* ClearSyntaxErrors: the number of AT calls it has issued
    csResult,         \* ClearSyntaxErrors: the error it returned, <<>> for nil
    rlAll,            \* readLoop: the bytes the Read calls have delivered so far
    rlLast,           \* readLoop: the number of bytes of the Read call that reported the end
    rlLine,           \* readLoop: currentLine
    rlOut,            \* readLoop: the lines sent to the channel, in order
    rlClosed,         \* readLoop: the channel is closed
    rlEnd,            \* readLoop: how the reader ended: "", "EOF" or "error"
    messageCallback,  \* Stack: a message callback is registered
    statusCallback,   \* Stack: a status callback is registered
    responseCallback, \* Stack: a response callback is registered
    pendingMessages,  \* Stack: map from message id to the Message under reassembly
    put,              \* Stack.Put: the argument of the call that has just run
    putErr,           \* Stack.Put: the error it returned, "" for nil
    messages,         \* Stack.Put: the Messages it handed to the message callback
    statuses,         \* Stack.Put: the StatusMessages it handed to the status callback
    responses,        \* Stack.Put: the request lists it handed to the response callback
    supplied,         \* the sequence numbers of the parts Put for the message under reassembly
    reParts,          \* reassembly in two orders: the text and timestamp of each part
    reOrder,          \* the order in which the first stack is given the parts
    reStep,           \* the number of parts Put so far into each stack
    rePending,        \* pendingMessages of the two stacks
    reMessages,       \* the Messages the two stacks handed to their message callbacks
    vpPc,             \* validity period: "idle", "code", "duration" or "encoded"
    vpCode,           \* validity period: the code ParseValidityPeriod was given
    vpDur,            \* validity period: the ValidityPeriod that is encoded
    vpOut,            \* validity period: the byte Encode returned
    piReport,         \* incoming message: the SDSShortReport that is encoded, or Nil
    piHeader,         \* incoming message: the header line given to ParseIncomingMessage
    piHex,            \* incoming message: the hex line given to ParseIncomingMessage
    piPc,             \* incoming message: "idle", "report", "line" or "parsed"
    piResult,         \* incoming message: what ParseIncomingMessage returned
    dsPc,             \* delivery status: "idle", "status" or "classified"
    dsStatus,         \* delivery status: the DeliveryStatus that is classified
    dsClass,          \* delivery status: the value of each class predicate
    spPc,             \* SplitToMaxBits: "idle", "text" or "split"
    spEncoding,       \* SplitToMaxBits: the encoding
    spMaxBits,        \* SplitToMaxBits: maxPDUBits
    spText,           \* SplitToMaxBits: the text
    spParts,          \* SplitToMaxBits: what the call returned
    owed,             \* a request was written and the device has sent no terminator since
    answer            \* of the line in the channel: "none", "due" if the device sent it while
                      \* it owed a terminator, "late" if a request was written since then

\* the variables of the parts of the program that are modelled further down
csVars    == <<csPc, csCalls, csResult>>
rlVars    == <<rlAll, rlLast, rlLine, rlOut, rlClosed, rlEnd>>
comVars   == <<lines, linesClosed, emitted, loopPc, cont, activeCommand, commandCancelled,
               activeIndication, closed, indications, pc, request, ctxDone, response, err,
               completed, cmdLines, written, result, running, owed, answer>>

stackVars == <<messageCallback, statusCallback, responseCallback, pendingMessages,
               put, putErr, messages, statuses, responses, supplied>>

\* what the actions of the transport, of ClearSyntaxErrors, of readLoop and of
\* the Stack leave alone
reVars    == <<reParts, reOrder, reStep, rePending, reMessages>>

vpVars    == <<vpPc, vpCode, vpDur, vpOut>>

piVars    == <<piReport, piHeader, piHex, piPc, piResult>>

dsVars    == <<dsPc, dsStatus, dsClass>>

spVars    == <<spPc, spEncoding, spMaxBits, spText, spParts>>

loopFrame  == <<csVars, rlVars, stackVars, reVars, vpVars, piVars, dsVars, spVars>>
otherVars  == <<loopFrame, owed, answer>>
csFrame    == <<rlVars, stackVars, reVars, vpVars, piVars, dsVars, spVars, owed, answer>>
rlFrame    == <<comVars, csVars, stackVars, reVars, vpVars, piVars, dsVars, spVars>>
stackFrame == <<comVars, csVars, rlVars, reVars, vpVars, piVars, dsVars, spVars>>
reFrame    == <<comVars, csVars, rlVars, stackVars, vpVars, piVars, dsVars, spVars>>
vpFrame    == <<comVars, csVars, rlVars, stackVars, reVars, piVars, dsVars, spVars>>
piFrame    == <<comVars, csVars, rlVars, stackVars, reVars, vpVars, dsVars, spVars>>
dsFrame    == <<comVars, csVars, rlVars, stackVars, reVars, vpVars, piVars, spVars>>
spFrame    == <<comVars, csVars, rlVars, stackVars, reVars, vpVars, piVars, dsVars>>

vars == <<comVars, csVars, rlVars, stackVars, reVars, vpVars, piVars, dsVars, spVars>>

\* no Put call has run, or its result has been taken
NoPut == [kind |-> "none"]

readerVars  == <<lines, linesClosed, emitted>>
loopVars    == <<loopPc, cont, activeCommand, commandCancelled, activeIndication, closed,
                 indications>>
commandVars == <<response, err, completed, cmdLines>>
callerVars  == <<request, ctxDone, result>>

NoResult == [kind |-> "none", lines |-> <<>>, err |-> <<>>]
NoCont   == [line |-> <<>>, rest |-> {}]

\* New(device) followed by the registrations
ComInitWith(registry) ==
    /\ lines = <<>>
    /\ linesClosed = FALSE
    /\ emitted = 0
    /\ loopPc = "select"
    /\ cont = NoCont
    /\ activeCommand = NoCommand
    /\ commandCancelled = NoCommand
    /\ activeIndication = Nil
    /\ closed = FALSE
    /\ indications = registry
    /\ pc = [c \in Callers |-> "idle"]
    /\ request = [c \in Callers |-> <<>>]
    /\ ctxDone = [c \in Callers |-> FALSE]
    /\ response = [c \in Callers |-> <<>>]
    /\ err = [c \in Callers |-> <<>>]
    /\ completed = [c \in Callers |-> FALSE]
    /\ cmdLines = [c \in Callers |-> <<>>]
    /\ written = [c \in Callers |-> <<>>]
    /\ result = [c \in Callers |-> NoResult]
    /\ running = <<>>
    /\ owed = FALSE
    /\ answer = "none"
    /\ csPc = "idle"
    /\ csCalls = 0
    /\ csResult = <<>>
    /\ rlAll = <<>>
    /\ rlLast = 0
    /\ rlLine = <<>>
    /\ rlOut = <<>>
    /\ rlClosed = FALSE
    /\ rlEnd = ""

ComInit == ComInitWith(TestRegistry)

\* no call of Put has run
PutIdle ==
    /\ put = NoPut
    /\ putErr = ""
    /\ messages = <<>>
    /\ statuses = <<>>
    /\ responses = <<>>

\* NewStack(): no callback, nothing pending
NewStack ==
    /\ messageCallback = FALSE
    /\ statusCallback = FALSE
    /\ responseCallback = FALSE
    /\ pendingMessages = <<>>
    /\ supplied = {}
    /\ PutIdle

\* no message is being reassembled in two orders
ReIdle ==
    /\ reParts = <<>>
    /\ reOrder = <<>>
    /\ reStep = 0
    /\ rePending = <<(<<>>), (<<>>)>>
    /\ reMessages = <<(<<>>), (<<>>)>>

\* no validity period is being converted
VpIdle ==
    /\ vpPc = "idle"
    /\ vpCode = 0
    /\ vpDur = [sec |-> 0, nsec |-> 0]
    /\ vpOut = 0

\* no incoming message is being parsed, no delivery status classified and no
\* text split
PiIdle ==
    /\ piReport = Nil
    /\ piHeader = <<>>
    /\ piHex = <<>>
    /\ piPc = "idle"
    /\ piResult = Nil

DsIdle ==
    /\ dsPc = "idle"
    /\ dsStatus = 0
    /\ dsClass = Nil

SpIdle ==
    /\ spPc = "idle"
    /\ spEncoding = 0
    /\ spMaxBits = 0
    /\ spText = <<>>
    /\ spParts = Nil

\* the parts of the sds package that keep no state are at rest
SdsIdle == PiIdle /\ DsIdle /\ SpIdle

Init ==
    /\ ComInit
    /\ NewStack
    /\ ReIdle
    /\ VpIdle
    /\ SdsIdle

(***************************************************************************)
(* The command: AddLine, Complete and the bytes written for its request.   *)
(***************************************************************************)
CtrlZ == "<1A>"
Esc   == "<1B>"

StrOK       == <<"O","K">>
StrERROR    == <<"E","R","R","O","R">>
StrCMEERROR == <<"+","C","M","E"," ","E","R","R","O","R",":">>
StrCMSERROR == <<"+","C","M","S"," ","E","R","R","O","R">>

\* variant: a loop that frames every request with CR LF
TxBytesAlwaysCRLF(req) == req \o <<CR, LF>>

\* the bytes the loop writes for a non-empty request
TxBytes(req) ==
    LET lastbyte == req[Len(req)]
    IN  IF lastbyte # CtrlZ /\ lastbyte # Esc THEN req \o <<CR, LF>> ELSE req

\* the classification of command.AddLine
IsSuccessLine(line) == TrimSpace(ToUpper(line)) = StrOK

\* variant: the error terminators compared without upper-casing the line
IsErrorLineCaseSensitive(line) ==
    LET saniLine == TrimSpace(line)
    IN  \/ HasPrefix(saniLine, StrERROR)
        \/ HasPrefix(saniLine, StrCMEERROR)
        \/ HasPrefix(saniLine, StrCMSERROR)

IsErrorLine(line) ==
    LET saniLine == TrimSpace(ToUpper(line))
    IN  \/ HasPrefix(saniLine, StrERROR)
        \/ HasPrefix(saniLine, StrCMEERROR)
        \/ HasPrefix(saniLine, StrCMSERROR)

\* the cancelled channel of a command is closed
Cancelled(c) == IF c = Orphan THEN TRUE ELSE ctxDone[c]

\* variant: a command that keeps the OK line among its response lines
CommandAddLineKeepsOK(c, line) ==
    IF c = Orphan
    THEN UNCHANGED <<response, err, completed, cmdLines>>
    ELSE IF ctxDone[c] \/ completed[c]
    THEN UNCHANGED <<response, err, completed, cmdLines>>
    ELSE IF IsSuccessLine(line)
    THEN /\ Len(response[c]) < 1
         /\ response' = [response EXCEPT ![c] = Append(@, Append(cmdLines[c], line))]
         /\ completed' = [completed EXCEPT ![c] = TRUE]
         /\ UNCHANGED <<err, cmdLines>>
    ELSE IF IsErrorLine(line)
    THEN /\ Len(err[c]) < 1
         /\ err' = [err EXCEPT ![c] = Append(@, line)]
         /\ completed' = [completed EXCEPT ![c] = TRUE]
         /\ UNCHANGED <<response, cmdLines>>
    ELSE /\ cmdLines' = [cmdLines EXCEPT ![c] = Append(@, line)]
         /\ UNCHANGED <<response, err, completed>>

\* command.AddLine for the command c the loop points to; a send on a full
\* channel blocks
CommandAddLine(c, line) ==
    IF c = Orphan
    THEN UNCHANGED <<response, err, completed, cmdLines>>
    ELSE IF ctxDone[c] \/ completed[c]
    THEN UNCHANGED <<response, err, completed, cmdLines>>
    ELSE IF IsSuccessLine(line)
    THEN /\ Len(response[c]) < 1
         /\ response' = [response EXCEPT ![c] = Append(@, cmdLines[c])]
         /\ completed' = [completed EXCEPT ![c] = TRUE]
         /\ UNCHANGED <<err, cmdLines>>
    ELSE IF IsErrorLine(line)
    THEN /\ Len(err[c]) < 1
         /\ err' = [err EXCEPT ![c] = Append(@, line)]
         /\ completed' = [completed EXCEPT ![c] = TRUE]
         /\ UNCHANGED <<response, cmdLines>>
    ELSE /\ cmdLines' = [cmdLines EXCEPT ![c] = Append(@, line)]
         /\ UNCHANGED <<response, err, completed>>

\* command.Complete, from the state of its two channels
CommandComplete(cancelledClosed, completedClosed) == cancelledClosed \/ completedClosed

(***************************************************************************)
(* readLoop, seen from the channel: it skips empty lines, sends the others *)
(* while the channel has room and closes the channel at end-of-stream or   *)
(* read error.                                                             *)
(***************************************************************************)
ReaderEmit(line) ==
    /\ UNCHANGED loopFrame
    /\ answer' = IF owed THEN "due" ELSE "none"
    /\ owed' = (owed /\ ~IsSuccessLine(line) /\ ~IsErrorLine(line))
    /\ ~linesClosed
    /\ Len(line) # 0
    /\ Len(lines) < 1
    /\ emitted < MaxLines
    /\ lines' = Append(lines, line)
    /\ emitted' = emitted + 1
    /\ UNCHANGED <<linesClosed, loopVars, pc, commandVars, callerVars, written, running>>

ReaderEOF ==
    /\ UNCHANGED otherVars
    /\ ~linesClosed
    /\ linesClosed' = TRUE
    /\ UNCHANGED <<lines, emitted, loopVars, pc, commandVars, callerVars, written, running>>

(***************************************************************************)
(* The COM loop.  One action is one iteration: the select case that fired, *)
(* the processing of its event and the non-blocking dequeue that ends the  *)
(* iteration.  An iteration is suspended only inside the handler of a      *)
(* zero-trailer indication, which NewIfMatches calls synchronously.        *)
(***************************************************************************)
\* variant: a loop that takes a command whether or not one is active
DequeueUnguarded(ac, cc) ==
    IF \E c \in Callers : pc[c] = "sending"
    THEN \E c \in Callers :
            /\ pc[c] = "sending"
            /\ pc' = [pc EXCEPT ![c] = "waiting"]
            /\ IF Len(request[c]) = 0
               THEN /\ activeCommand' = ac
                    /\ commandCancelled' = cc
                    /\ UNCHANGED written
               ELSE /\ written' = [written EXCEPT ![c] = Append(@, TxBytes(request[c]))]
                    /\ commandCancelled' = c
                    /\ activeCommand' = c
    ELSE /\ activeCommand' = ac
         /\ commandCancelled' = cc
         /\ UNCHANGED <<pc, written>>

\* variant: a loop that does not watch the cancellation of the command it takes
DequeueUnwatched(ac, cc) ==
    IF ac # NoCommand
    THEN /\ activeCommand' = ac
         /\ commandCancelled' = cc
         /\ UNCHANGED <<pc, written>>
    ELSE IF \E c \in Callers : pc[c] = "sending"
    THEN \E c \in Callers :
            /\ pc[c] = "sending"
            /\ pc' = [pc EXCEPT ![c] = "waiting"]
            /\ IF Len(request[c]) = 0
               THEN /\ activeCommand' = ac
                    /\ commandCancelled' = cc
                    /\ UNCHANGED written
               ELSE /\ written' = [written EXCEPT ![c] = Append(@, TxBytes(request[c]))]
                    /\ commandCancelled' = cc
                    /\ activeCommand' = c
    ELSE /\ activeCommand' = ac
         /\ commandCancelled' = cc
         /\ UNCHANGED <<pc, written>>

\* variant: a loop that makes a command with an empty request the active one
DequeueEmptyActive(ac, cc) ==
    IF ac # NoCommand
    THEN /\ activeCommand' = ac
         /\ commandCancelled' = cc
         /\ UNCHANGED <<pc, written>>
    ELSE IF \E c \in Callers : pc[c] = "sending"
    THEN \E c \in Callers :
            /\ pc[c] = "sending"
            /\ pc' = [pc EXCEPT ![c] = "waiting"]
            /\ IF Len(request[c]) = 0
               THEN /\ activeCommand' = c
                    /\ commandCancelled' = c
                    /\ UNCHANGED written
               ELSE /\ written' = [written EXCEPT ![c] = Append(@, TxBytes(request[c]))]
                    /\ commandCancelled' = c
                    /\ activeCommand' = c
    ELSE /\ activeCommand' = ac
         /\ commandCancelled' = cc
         /\ UNCHANGED <<pc, written>>

\* lines 69-88: with no active command, take a command if a caller is sending
Dequeue(ac, cc) ==
    IF ac # NoCommand
    THEN /\ activeCommand' = ac
         /\ commandCancelled' = cc
         /\ UNCHANGED <<pc, written>>
    ELSE IF \E c \in Callers : pc[c] = "sending"
    THEN \E c \in Callers :
            /\ pc[c] = "sending"
            /\ pc' = [pc EXCEPT ![c] = "waiting"]
            /\ IF Len(request[c]) = 0
               THEN /\ activeCommand' = ac
                    /\ commandCancelled' = cc
                    /\ UNCHANGED written
               ELSE /\ written' = [written EXCEPT ![c] = Append(@, TxBytes(request[c]))]
                    /\ commandCancelled' = c
                    /\ activeCommand' = c
    ELSE /\ activeCommand' = ac
         /\ commandCancelled' = cc
         /\ UNCHANGED <<pc, written>>

\* the invocation of a handler: synchronous (the loop waits) or on its own goroutine
Invoke(config, lns, background, run0) ==
    running' = Append(run0, [handler |-> config.handler, prefix |-> config.prefix,
                             lines |-> lns, background |-> background])

\* COM.newIndication with indicationConfig.NewIfMatches, followed by the rest of
\* the iteration.  M is the set of registered prefixes that match the line and
\* were not visited yet; the map is ranged over in an unspecified order.
NewIndication(line, M, run0) ==
    \/ \E k \in M :
         \* a match that is complete at once: the handler is called and the range goes on
         /\ IndComplete(indications[k], <<line>>)
         /\ Invoke(indications[k], <<line>>, FALSE, run0)
         /\ loopPc' = "inHandler"
         /\ cont' = [line |-> line, rest |-> M \ {k}]
         /\ UNCHANGED <<activeCommand, commandCancelled, activeIndication, pc,
                        written, commandVars>>
    \/ \E k \in M :
         \* a match with trailing lines becomes the active indication
         /\ ~IndComplete(indications[k], <<line>>)
         /\ activeIndication' = [config |-> indications[k], lines |-> <<line>>]
         /\ loopPc' = "select"
         /\ cont' = NoCont
         /\ running' = run0
         /\ UNCHANGED commandVars
         /\ Dequeue(activeCommand, commandCancelled)
    \/ /\ M = {}
       \* newIndication returned nil
       /\ activeIndication' = Nil
       /\ loopPc' = "select"
       /\ cont' = NoCont
       /\ running' = run0
       /\ IF activeCommand # NoCommand
          THEN /\ CommandAddLine(activeCommand, line)
               /\ IF CommandComplete(Cancelled(activeCommand),
                                     IF activeCommand = Orphan THEN FALSE
                                     ELSE completed'[activeCommand])
                  THEN Dequeue(NoCommand, NoCommand)
                  ELSE Dequeue(activeCommand, commandCancelled)
          ELSE /\ UNCHANGED commandVars
               /\ Dequeue(activeCommand, commandCancelled)

\* variant: an indication whose handler is started as a call the loop waits for
IndicationAddLineInline(line) ==
    LET ind == activeIndication
        lns == IF IndComplete(ind.config, ind.lines) THEN ind.lines
               ELSE Append(ind.lines, line)
    IN  /\ IF ~IndComplete(ind.config, ind.lines) /\ IndComplete(ind.config, lns)
           THEN /\ Invoke(ind.config, lns, FALSE, running)
                /\ loopPc' = "inHandler"
                /\ cont' = [line |-> line, rest |-> {}]
           ELSE /\ UNCHANGED running
                /\ loopPc' = "select"
                /\ cont' = NoCont
        /\ activeIndication' = IF IndComplete(ind.config, lns) THEN Nil
                               ELSE [ind EXCEPT !.lines = lns]

\* indication.AddLine on the active indication, and the Complete test of the loop
IndicationAddLine(line) ==
    LET ind == activeIndication
        lns == IF IndComplete(ind.config, ind.lines) THEN ind.lines
               ELSE Append(ind.lines, line)
    IN  /\ IF ~IndComplete(ind.config, ind.lines) /\ IndComplete(ind.config, lns)
           THEN Invoke(ind.config, lns, TRUE, running)
           ELSE UNCHANGED running
        /\ activeIndication' = IF IndComplete(ind.config, lns) THEN Nil
                               ELSE [ind EXCEPT !.lines = lns]
        /\ loopPc' = "select"
        /\ cont' = NoCont

\* the iteration is over: when a request was written the device owes a
\* terminator, and an answer that is in the channel is late
Late ==
    IF written' # written
    THEN /\ owed' = TRUE
         /\ answer' = IF lines' # <<>> /\ answer # "none" THEN "late" ELSE "none"
    ELSE /\ owed' = owed
         /\ answer' = IF lines' = lines THEN answer ELSE "none"

MatchingPrefixes(line) == {k \in DOMAIN indications : Matches(indications[k], line)}

\* variant: a loop that looks at the active command before the active indication
LoopLineCommandFirst ==
    /\ UNCHANGED loopFrame
    /\ loopPc = "select"
    /\ lines # <<>>
    /\ lines' = Tail(lines)
    /\ UNCHANGED <<linesClosed, emitted, closed, indications, callerVars>>
    /\ IF activeIndication # Nil /\ activeCommand = NoCommand
       THEN /\ IndicationAddLine(Head(lines))
            /\ UNCHANGED commandVars
            /\ Dequeue(activeCommand, commandCancelled)
       ELSE NewIndication(Head(lines), MatchingPrefixes(Head(lines)), running)
    /\ Late

\* case line, valid := <-lines, with valid
LoopLine ==
    /\ UNCHANGED loopFrame
    /\ loopPc = "select"
    /\ lines # <<>>
    /\ lines' = Tail(lines)
    /\ UNCHANGED <<linesClosed, emitted, closed, indications, callerVars>>
    /\ IF activeIndication # Nil
       THEN /\ IndicationAddLine(Head(lines))
            /\ UNCHANGED commandVars
            /\ Dequeue(activeCommand, commandCancelled)
       ELSE NewIndication(Head(lines), MatchingPrefixes(Head(lines)), running)
    /\ Late

\* the synchronously called handler returns and the iteration goes on
LoopHandlerReturn ==
    /\ UNCHANGED loopFrame
    /\ loopPc = "inHandler"
    /\ UNCHANGED <<readerVars, closed, indications, callerVars>>
    /\ LET inline == CHOOSE i \in 1..Len(running) : ~running[i].background
       IN  NewIndication(cont.line, cont.rest, RemoveAt(running, inline))
    /\ Late

\* variant: a loop that closes the transport and goes on
LoopClosedGoesOn ==
    /\ UNCHANGED otherVars
    /\ loopPc = "select"
    /\ lines = <<>>
    /\ linesClosed
    /\ ~closed
    /\ closed' = TRUE
    /\ UNCHANGED <<readerVars, loopPc, cont, activeCommand, commandCancelled,
                   activeIndication, indications, pc, commandVars, callerVars, written,
                   running>>

\* variant: a loop that fails the active command when it exits
LoopClosedFailsActive ==
    /\ UNCHANGED otherVars
    /\ loopPc = "select"
    /\ lines = <<>>
    /\ linesClosed
    /\ loopPc' = "exited"
    /\ closed' = TRUE
    /\ err' = [c \in Callers |->
                  IF c = activeCommand THEN Append(err[c], <<"E","O","F">>) ELSE err[c]]
    /\ UNCHANGED <<readerVars, cont, activeCommand, commandCancelled, activeIndication,
                   indications, pc, response, completed, cmdLines, callerVars, written,
                   running>>

\* case line, valid := <-lines, with the channel closed and drained
LoopClosed ==
    /\ UNCHANGED otherVars
    /\ loopPc = "select"
    /\ lines = <<>>
    /\ linesClosed
    /\ loopPc' = "exited"
    /\ closed' = TRUE
    /\ UNCHANGED <<readerVars, cont, activeCommand, commandCancelled, activeIndication,
                   indications, pc, commandVars, callerVars, written, running>>

\* case <-commandCancelled
LoopCancelled ==
    /\ UNCHANGED loopFrame
    /\ loopPc = "select"
    /\ commandCancelled # NoCommand
    /\ Cancelled(commandCancelled)
    /\ Dequeue(NoCommand, NoCommand)
    /\ UNCHANGED <<readerVars, loopPc, cont, activeIndication, closed, indications,
                   commandVars, callerVars, running>>
    /\ Late

\* case <-tick.C
LoopTick ==
    /\ UNCHANGED loopFrame
    /\ loopPc = "select"
    /\ Dequeue(activeCommand, commandCancelled)
    /\ UNCHANGED <<readerVars, loopPc, cont, activeIndication, closed, indications,
                   commandVars, callerVars, running>>
    /\ Late

\* a handler running on its own goroutine returns
HandlerReturn(i) ==
    /\ UNCHANGED otherVars
    /\ i \in 1..Len(running)
    /\ running[i].background
    /\ running' = RemoveAt(running, i)
    /\ UNCHANGED <<readerVars, loopVars, pc, commandVars, callerVars, written>>

(***************************************************************************)
(* COM.AT.                                                                 *)
(***************************************************************************)
\* lines 193-199: a fresh command and a fresh context; the caller enters the
\* first select.  A command of this caller the loop still points to is an
\* orphan from now on.
CallAT(c, req) ==
    /\ UNCHANGED otherVars
    /\ pc[c] \in {"idle", "done"}
    /\ \A d \in Callers : d < c => pc[d] # "idle"
    /\ pc' = [pc EXCEPT ![c] = "sending"]
    /\ request' = [request EXCEPT ![c] = req]
    /\ ctxDone' = [ctxDone EXCEPT ![c] = FALSE]
    /\ response' = [response EXCEPT ![c] = <<>>]
    /\ err' = [err EXCEPT ![c] = <<>>]
    /\ completed' = [completed EXCEPT ![c] = FALSE]
    /\ cmdLines' = [cmdLines EXCEPT ![c] = <<>>]
    /\ written' = [written EXCEPT ![c] = <<>>]
    /\ result' = [result EXCEPT ![c] = NoResult]
    /\ activeCommand' = IF activeCommand = c THEN Orphan ELSE activeCommand
    /\ commandCancelled' = IF commandCancelled = c THEN Orphan ELSE commandCancelled
    /\ UNCHANGED <<readerVars, loopPc, cont, activeIndication, closed, indications, running>>

\* the context of the call is cancelled by its owner
Cancel(c) ==
    /\ UNCHANGED otherVars
    /\ pc[c] \in {"sending", "waiting"}
    /\ ~ctxDone[c]
    /\ ctxDone' = [ctxDone EXCEPT ![c] = TRUE]
    /\ UNCHANGED <<readerVars, loopVars, pc, commandVars, request, result, written, running>>

Return(c, res) ==
    /\ pc' = [pc EXCEPT ![c] = "done"]
    /\ result' = [result EXCEPT ![c] = res]

\* first select, case <-ctx.Done()
ATSendCancelled(c) ==
    /\ UNCHANGED otherVars
    /\ pc[c] = "sending"
    /\ ctxDone[c]
    /\ Return(c, [kind |-> "cancelled", lines |-> <<>>, err |-> <<>>])
    /\ UNCHANGED <<readerVars, loopVars, commandVars, request, ctxDone, written, running>>

\* first select, case <-time.After(500 * time.Millisecond)
ATSendTimeout(c) ==
    /\ UNCHANGED otherVars
    /\ pc[c] = "sending"
    /\ Return(c, [kind |-> "timeout", lines |-> <<>>, err |-> <<>>])
    /\ UNCHANGED <<readerVars, loopVars, commandVars, request, ctxDone, written, running>>

\* second select, case response := <-cmd.response
ATResponse(c) ==
    /\ UNCHANGED otherVars
    /\ pc[c] = "waiting"
    /\ response[c] # <<>>
    /\ response' = [response EXCEPT ![c] = Tail(@)]
    /\ Return(c, [kind |-> "ok", lines |-> Head(response[c]), err |-> <<>>])
    /\ UNCHANGED <<readerVars, loopVars, err, completed, cmdLines, request, ctxDone,
                   written, running>>

\* second select, case err := <-cmd.err
ATError(c) ==
    /\ UNCHANGED otherVars
    /\ pc[c] = "waiting"
    /\ err[c] # <<>>
    /\ err' = [err EXCEPT ![c] = Tail(@)]
    /\ Return(c, [kind |-> "error", lines |-> <<>>, err |-> Head(err[c])])
    /\ UNCHANGED <<readerVars, loopVars, response, completed, cmdLines, request,
                   ctxDone, written, running>>

\* second select, case <-ctx.Done()
ATCancelled(c) ==
    /\ UNCHANGED otherVars
    /\ pc[c] = "waiting"
    /\ ctxDone[c]
    /\ Return(c, [kind |-> "cancelled", lines |-> <<>>, err |-> <<>>])
    /\ UNCHANGED <<readerVars, loopVars, commandVars, request, ctxDone, written, running>>

Next ==
    \/ \E line \in RawLines : ReaderEmit(line)
    \/ ReaderEOF
    \/ LoopLine
    \/ LoopHandlerReturn
    \/ LoopClosed
    \/ LoopCancelled
    \/ LoopTick
    \/ \E i \in 1..Len(running) : HandlerReturn(i)
    \/ \E c \in Callers, req \in Requests : CallAT(c, req)
    \/ \E c \in Callers : Cancel(c)
    \/ \E c \in Callers : ATSendCancelled(c)
    \/ \E c \in Callers : ATSendTimeout(c)
    \/ \E c \in Callers : ATResponse(c)
    \/ \E c \in Callers : ATError(c)
    \/ \E c \in Callers : ATCancelled(c)

Spec == Init /\ [][Next]_vars

(***************************************************************************)
(* Vocabulary of the properties.                                           *)
(***************************************************************************)
\* the step takes a line from the channel
LineTaken == Len(lines') < Len(lines)

\* the step resumes the iteration that was waiting for a handler
HandlerReturned == loopPc = "inHandler" /\ cont' # cont

\* the line the loop classifies in a step LineTaken or HandlerReturned
CurLine ==
    IF loopPc = "inHandler" THEN cont.line
    ELSE IF lines # <<>> THEN Head(lines) ELSE <<>>

\* what a step hands to the command of caller c
AddedLine(c) == Len(cmdLines'[c]) > Len(cmdLines[c])
Succeeded(c) == Len(response'[c]) > Len(response[c])
Failed(c)    == Len(err'[c]) > Len(err[c])
Delivered(c) == AddedLine(c) \/ Succeeded(c) \/ Failed(c)

\* the step writes the request of caller c to the device
Wrote(c) == Len(written'[c]) > Len(written[c])

\* the line matches a registered indication
MatchesSome(line) == \E k \in DOMAIN indications : Matches(indications[k], line)

\* the terminators as the protocol names them
TerminatesOK(line) == TrimSpace(ToUpper(line)) = <<"O","K">>
TerminatesError(line) ==
    \/ HasPrefix(TrimSpace(ToUpper(line)), <<"E","R","R","O","R">>)
    \/ HasPrefix(TrimSpace(ToUpper(line)), <<"+","C","M","E"," ","E","R","R","O","R",":">>)
    \/ HasPrefix(TrimSpace(ToUpper(line)), <<"+","C","M","S"," ","E","R","R","O","R">>)

\* the command was completed by a terminator or its cancellation has fired
Resolved(c) == IF c = Orphan THEN TRUE ELSE completed[c] \/ ctxDone[c]

\* the step starts a handler, and the invocation it starts
Spawned ==
    \/ Len(running') > Len(running)
    \/ HandlerReturned /\ loopPc' = "inHandler"
NewInvocation == running'[Len(running')]

TrailingOf(prefix) == indications[prefix].trailingLines

(***************************************************************************)
(* C1.  Every AT call gets a disposition.                                  *)
(***************************************************************************)
\* C1: a call that awaits its result is never left without a disposition:
\* a result is in one of its channels, or its context is done, or the running
\* loop holds its command as the active command and can still complete it.
C1_NoCallLeftWithoutDisposition ==
    \A c \in Callers :
        pc[c] = "waiting" =>
            \/ response[c] # <<>>
            \/ err[c] # <<>>
            \/ ctxDone[c]
            \/ (loopPc # "exited" /\ activeCommand = c)

(***************************************************************************)
(* C2.  At most one command is active.                                     *)
(***************************************************************************)
\* every command whose request was written and that is neither completed nor
\* cancelled is the one active command
C2_WrittenResolved ==
    \A c \in Callers :
        (written[c] # <<>> /\ ~Resolved(c)) => (activeCommand = c /\ Len(written[c]) = 1)

\* a request is written only in a step that starts with no active command or
\* that drops the active command because it was completed or cancelled, and
\* the written command becomes the active one
C2_WriteStep ==
    \A c \in Callers :
        Wrote(c) =>
            /\ activeCommand' = c
            /\ written'[c] = <<TxBytes(request[c])>>
            /\ \/ activeCommand = NoCommand
               \/ activeCommand = Orphan
               \/ ctxDone[activeCommand]
               \/ completed'[activeCommand]

\* C2: in every reachable state at most one command is active: the request of a
\* command is never written before the previous active command was completed by
\* a terminator or dropped by cancellation.
C2_AtMostOneActive == [](C2_WrittenResolved) /\ [][C2_WriteStep]_vars

\* the second command is active and written, the first one was written and resolved
C2_Witness ==
    \E c, d \in Callers :
        /\ c # d
        /\ written[c] # <<>> /\ completed[c] /\ pc[c] = "waiting"
        /\ written[d] # <<>> /\ ~Resolved(d) /\ activeCommand = d

(***************************************************************************)
(* C3.  Indication lines and the active command.                           *)
(***************************************************************************)
\* C3: a line that starts a registered indication, whatever its trailing-line
\* count, is never handed to a command: it is neither appended to the response
\* lines nor evaluated as a terminator.
C3_IndicationLineNotForCommand ==
    [][\A c \in Callers :
          (Delivered(c) /\ (LineTaken \/ HandlerReturned)) => ~MatchesSome(CurLine)]_vars

(***************************************************************************)
(* C4.  What a handler receives.                                           *)
(***************************************************************************)
\* every invocation holds trailing + 1 lines and begins with the matching line;
\* an instance being buffered begins with the matching line and is not complete
C4_HandlerLines ==
    /\ \A i \in 1..Len(running) :
          /\ Len(running[i].lines) = TrailingOf(running[i].prefix) + 1
          /\ Matches(indications[running[i].prefix], running[i].lines[1])
          /\ running[i].handler = indications[running[i].prefix].handler
    /\ activeIndication # Nil =>
          /\ Len(activeIndication.lines) \in 1..activeIndication.config.trailingLines
          /\ Matches(activeIndication.config, activeIndication.lines[1])

\* an instance starts with the line that matched, grows by the line taken, as it
\* was received, and ends with the one invocation that gets all its lines
C4_HandlerStep ==
    /\ Spawned =>
          /\ LineTaken \/ HandlerReturned
          /\ IF activeIndication # Nil
             THEN /\ NewInvocation.prefix = activeIndication.config.prefix
                  /\ NewInvocation.lines = Append(activeIndication.lines, CurLine)
                  /\ activeIndication' = Nil
                  /\ running' = Append(running, NewInvocation)
             ELSE /\ NewInvocation.lines = <<CurLine>>
                  /\ TrailingOf(NewInvocation.prefix) = 0
    /\ (activeIndication = Nil /\ activeIndication' # Nil) =>
          /\ LineTaken \/ HandlerReturned
          /\ activeIndication'.lines = <<CurLine>>
    /\ (activeIndication # Nil /\ activeIndication' # Nil) =>
          /\ activeIndication'.config = activeIndication.config
          /\ IF LineTaken
             THEN activeIndication'.lines = Append(activeIndication.lines, CurLine)
             ELSE activeIndication'.lines = activeIndication.lines
    /\ (activeIndication # Nil /\ activeIndication' = Nil) => Spawned

\* C4: each time an indication with trailing = k is started its handler is
\* invoked at most once, with exactly k + 1 lines: the matching line followed by
\* the next k lines received, in arrival order and with their original case.
C4_HandlerGetsTrailingPlusOne == [](C4_HandlerLines) /\ [][C4_HandlerStep]_vars

\* the handler of the one-trailer indication runs with the matching line and a
\* lower-case ok that followed it
C4_Witness ==
    \E i \in 1..Len(running) :
        /\ TrailingOf(running[i].prefix) = 1
        /\ running[i].lines = <<LineInd1, LineOkLower>>

(***************************************************************************)
(* C5.  A buffering indication takes every line.                           *)
(***************************************************************************)
\* C5: while an indication instance is buffering, every line that arrives is
\* appended to that instance whatever its content: no command is handed a line
\* or a terminator, no other indication is started, and the instance is given
\* up only by the step that completes it.
C5_BufferingTakesEveryLine ==
    [][activeIndication # Nil =>
          /\ \A c \in Callers : ~Delivered(c)
          /\ \A c \in Callers : completed'[c] => completed[c]
          /\ IF LineTaken
             THEN LET lns == Append(activeIndication.lines, CurLine)
                  IN  IF Len(lns) = activeIndication.config.trailingLines + 1
                      THEN /\ activeIndication' = Nil
                           /\ Spawned
                           /\ NewInvocation.lines = lns
                           /\ NewInvocation.prefix = activeIndication.config.prefix
                      ELSE /\ activeIndication' = [activeIndication EXCEPT !.lines = lns]
                           /\ ~Spawned
             ELSE /\ activeIndication' = activeIndication
                  /\ ~Spawned]_vars

\* the two-trailer indication holds a line that is a terminator while a command
\* is active and unresolved
C5_Witness ==
    /\ activeIndication # Nil
    /\ activeIndication.lines = <<LineInd2, LineOkLower>>
    /\ activeCommand \in Callers
    /\ ~Resolved(activeCommand)
    /\ pc[activeCommand] = "waiting"

(***************************************************************************)
(* C6.  The lines an OK returns.                                           *)
(***************************************************************************)
\* the lines of a command hold no terminator and no empty line; a response in
\* the channel and the result of a call that returned success are these lines
C6_ResponseLines ==
    \A c \in Callers :
        /\ \A i \in 1..Len(cmdLines[c]) :
              /\ cmdLines[c][i] # <<>>
              /\ ~TerminatesOK(cmdLines[c][i])
              /\ ~TerminatesError(cmdLines[c][i])
        /\ pc[c] \in {"idle", "sending"} => cmdLines[c] = <<>>
        /\ response[c] # <<>> => response[c] = <<cmdLines[c]>>
        /\ result[c].kind = "ok" => result[c].lines = cmdLines[c]

\* the lines of a command change only by a line fed to it while it is active,
\* appended at the end, or by the next call of its caller
C6_ResponseStep ==
    \A c \in Callers :
        /\ cmdLines'[c] # cmdLines[c] =>
              \/ /\ activeCommand = c
                 /\ LineTaken \/ HandlerReturned
                 /\ cmdLines'[c] = Append(cmdLines[c], CurLine)
              \/ /\ pc'[c] = "sending"
                 /\ cmdLines'[c] = <<>>
        /\ Succeeded(c) =>
              /\ TerminatesOK(CurLine)
              /\ response'[c] = <<cmdLines[c]>>
              /\ cmdLines'[c] = cmdLines[c]
        /\ (pc[c] = "waiting" /\ pc'[c] = "done" /\ result'[c].kind = "ok") =>
              /\ response[c] # <<>>
              /\ result'[c].lines = Head(response[c])

\* C6: a command terminated by OK returns exactly the lines fed to it between
\* its dequeue and the terminator, in arrival order, without the terminator and
\* without empty lines; with no such line the result is empty.
C6_OkReturnsFedLines == [](C6_ResponseLines) /\ [][C6_ResponseStep]_vars

\* a call returned success with one line in front of the terminator
C6_Witness ==
    \E c \in Callers :
        /\ pc[c] = "done"
        /\ result[c].kind = "ok"
        /\ result[c].lines = <<LineOKAY>>

(***************************************************************************)
(* C7.  The terminators.                                                   *)
(***************************************************************************)
\* the step feeds the line it classifies to the command of caller c
FedTo(c) ==
    /\ activeCommand = c
    /\ \/ LineTaken /\ activeIndication = Nil /\ ~MatchesSome(CurLine)
       \/ HandlerReturned /\ loopPc' = "select" /\ activeIndication' = Nil

\* what the terminators do to the command that is fed a line
TerminatorEffect(c) ==
    /\ Succeeded(c) <=> TerminatesOK(CurLine)
    /\ Failed(c) <=> TerminatesError(CurLine)
    /\ Failed(c) => (err'[c] = <<CurLine>> /\ cmdLines'[c] = cmdLines[c])
    /\ (Succeeded(c) \/ Failed(c)) => completed'[c]
    /\ (~TerminatesOK(CurLine) /\ ~TerminatesError(CurLine)) =>
          /\ cmdLines'[c] = Append(cmdLines[c], CurLine)
          /\ ~completed'[c]

\* C7 as stated: every line fed to the active command completes it with success
\* iff it is OK, with an error iff it begins with an error prefix, and is
\* accumulated otherwise.
C7_TerminatorsAsStated == [][\A c \in Callers : FedTo(c) => TerminatorEffect(c)]_vars

\* an error in the channel and the error a call returned are an error line as it
\* was received, and an error result has no lines
C7_ErrorResult ==
    \A c \in Callers :
        /\ err[c] # <<>> => (Len(err[c]) = 1 /\ TerminatesError(err[c][1]) /\ completed[c])
        /\ result[c].kind = "error" =>
              (result[c].lines = <<>> /\ TerminatesError(result[c].err))

C7_TerminatorStep ==
    \A c \in Callers :
        /\ (FedTo(c) /\ ~ctxDone[c]) => TerminatorEffect(c)
        /\ (FedTo(c) /\ ctxDone[c]) => (~Delivered(c) /\ activeCommand' # c)
        /\ Delivered(c) => FedTo(c)
        /\ (pc[c] = "waiting" /\ pc'[c] = "done" /\ result'[c].kind = "error") =>
              /\ err[c] # <<>>
              /\ result'[c].err = Head(err[c])
              /\ result'[c].lines = <<>>

\* C7 (amended): a line fed to the active command whose cancellation has not
\* fired completes it with success iff its trimmed, upper-cased form is OK, with
\* an error iff that form begins with ERROR, +CME ERROR: or +CMS ERROR, and is
\* accumulated otherwise; the error the call returns is the line verbatim and has
\* no data lines.  A line fed after the cancellation has fired is discarded and
\* the command is dropped.
C7_Terminators == [](C7_ErrorResult) /\ [][C7_TerminatorStep]_vars

\* a call returned the lower-case CMS error line as its error
C7_Witness ==
    \E c \in Callers :
        /\ pc[c] = "done"
        /\ result[c].kind = "error"
        /\ result[c].err = LineCMS

(***************************************************************************)
(* C8.  Cancellation of the active command.                                *)
(***************************************************************************)
\* the loop selects on the cancellation of the command that is active, and at
\* its select it can take the case that drops a command whose cancellation fired
C8_Watched ==
    /\ commandCancelled = activeCommand
    /\ (loopPc = "select" /\ activeCommand # NoCommand /\ Cancelled(activeCommand)) =>
          ENABLED (LoopCancelled /\ activeCommand' # activeCommand)

\* the step gives up the active command
Dropped == activeCommand # NoCommand /\ activeCommand' \notin {activeCommand, Orphan}

C8_CancelStep ==
    /\ \A c \in Callers :
          /\ (pc[c] = "waiting" /\ ctxDone[c]) => ~Delivered(c)
          /\ (pc[c] = "waiting" /\ pc'[c] = "done" /\ ctxDone[c]
                /\ response[c] = <<>> /\ err[c] = <<>>) =>
                result'[c] = [kind |-> "cancelled", lines |-> <<>>, err |-> <<>>]
    /\ Dropped =>
          /\ Resolved(activeCommand) \/ completed'[activeCommand]
          /\ IF \E d \in Callers : pc[d] = "sending"
             THEN \E d \in Callers :
                     /\ pc[d] = "sending"
                     /\ pc'[d] = "waiting"
                     /\ request[d] # <<>> => (Wrote(d) /\ activeCommand' = d)
                     /\ request[d] = <<>> => activeCommand' = NoCommand
             ELSE activeCommand' = NoCommand

\* C8: once the cancellation of the active command has fired while its call
\* awaits a result, nothing is delivered to the call, which returns the
\* cancellation error without lines; the loop watches that cancellation, and the
\* iteration that drops the command takes and writes the next command.
C8_CancelDropsActive == [](C8_Watched) /\ [][C8_CancelStep]_vars

\* a written command was cancelled before any terminator and, its call still
\* waiting, the loop has dropped it and written the command of the other caller
C8_Witness ==
    \E c, d \in Callers :
        /\ c # d
        /\ pc[c] = "waiting" /\ ctxDone[c] /\ ~completed[c] /\ written[c] # <<>>
        /\ activeCommand = d /\ written[d] # <<>> /\ ~Resolved(d)

(***************************************************************************)
(* C9.  End of stream.                                                     *)
(***************************************************************************)
\* the transport is closed exactly when the loop has exited, which it does only
\* with the line channel closed and drained
C9_ClosedState ==
    /\ closed <=> loopPc = "exited"
    /\ closed => (linesClosed /\ lines = <<>>)
    /\ (linesClosed /\ lines = <<>> /\ loopPc = "select") => ENABLED (LoopClosed /\ closed')

C9_ClosedStep ==
    closed =>
        /\ closed'
        /\ \A c \in Callers :
              /\ ~Wrote(c)
              /\ ~Delivered(c)
              /\ pc'[c] = "waiting" => pc[c] = "waiting"
              /\ (pc[c] = "sending" /\ pc'[c] # "sending") =>
                    /\ pc'[c] = "done"
                    /\ result'[c].kind \in {"timeout", "cancelled"}
                    /\ result'[c].lines = <<>>

\* C9: the loop exits when the line channel is closed, Closed() becomes and
\* stays true, and from then on every call that is issued leaves the enqueue
\* step with the sending-queue timeout or the cancellation error and nothing is
\* written to the device.
C9_ClosedTransport == [](C9_ClosedState) /\ [][C9_ClosedStep]_vars

\* on a closed transport one call has timed out and another is in its enqueue step
C9_Witness ==
    /\ closed
    /\ \E c, d \in Callers :
          /\ pc[c] = "done" /\ result[c].kind = "timeout"
          /\ pc[d] = "sending"

(***************************************************************************)
(* C10.  Handlers of multi-line indications run in the background.         *)
(***************************************************************************)
\* the loop waits for a handler only while one handler of a zero-trailer
\* indication runs; every handler of a multi-line indication runs on its own,
\* and while it runs the loop at its select can take a line and a command
C10_Background ==
    /\ \A i \in 1..Len(running) :
          running[i].background <=> TrailingOf(running[i].prefix) >= 1
    /\ loopPc = "inHandler" <=> \E i \in 1..Len(running) : ~running[i].background
    /\ Cardinality({i \in 1..Len(running) : ~running[i].background}) <= 1
    /\ (loopPc = "select" /\ \E i \in 1..Len(running) : running[i].background) =>
          /\ lines # <<>> => ENABLED LoopLine
          /\ (activeCommand = NoCommand /\ \E d \in Callers : pc[d] = "sending") =>
                ENABLED (LoopTick /\ \E d \in Callers : pc'[d] # pc[d])

\* the iteration that starts the handler of a multi-line indication ends at the
\* select of the loop, its end-of-iteration dequeue done
C10_SpawnStep ==
    (Spawned /\ TrailingOf(NewInvocation.prefix) >= 1) =>
        /\ loopPc' = "select"
        /\ (activeCommand = NoCommand /\ \E d \in Callers : pc[d] = "sending") =>
              \E d \in Callers : pc[d] = "sending" /\ pc'[d] = "waiting"

\* C10: a handler of a multi-line indication that is still running does not
\* stall the loop: the loop never waits for it and goes on with its select,
\* the active command and the dequeue of further commands.
C10_MultiLineHandlerDoesNotStall == [](C10_Background) /\ [][C10_SpawnStep]_vars

\* the handler of a multi-line indication runs while the loop is at its select
\* with a written command active
C10_Witness ==
    /\ loopPc = "select"
    /\ \E i \in 1..Len(running) : running[i].background /\ Len(running[i].lines) >= 2
    /\ activeCommand \in Callers
    /\ pc[activeCommand] = "waiting"
    /\ written[activeCommand] # <<>>

(***************************************************************************)
(* C11.  The bytes written for a request.                                  *)
(***************************************************************************)
\* fmt.Sprintf("%d") of a natural number
RECURSIVE DecDigits(_)
DecDigits(n) ==
    LET digit == <<"0","1","2","3","4","5","6","7","8","9">>[(n % 10) + 1]
    IN  IF n < 10 THEN <<digit>> ELSE Append(DecDigits(n \div 10), digit)

\* sds.SendMessage, from the destination, the bit count and the hex text of the
\* encoded PDU
SendMessage(destination, pduBits, hexPdu) ==
    <<"A","T","+","C","M","G","S","=">> \o destination \o <<",">> \o DecDigits(pduBits)
        \o <<CR, LF>> \o hexPdu \o <<CtrlZ>>

ReqSendMessage == SendMessage(<<"1","2">>, 16, <<"8","2","0","A">>)
ReqEsc         == <<"x", Esc>>
WriteRequests  == {ReqAT, ReqEmpty, ReqSendMessage, ReqEsc}

\* the transport with a device that answers nothing but ok, and callers that
\* issue every kind of request
WriteNext ==
    \/ ReaderEmit(LineOkLower)
    \/ ReaderEOF
    \/ LoopLine
    \/ LoopClosed
    \/ LoopCancelled
    \/ LoopTick
    \/ \E c \in Callers, req \in WriteRequests : CallAT(c, req)
    \/ \E c \in Callers : Cancel(c)
    \/ \E c \in Callers : ATSendCancelled(c)
    \/ \E c \in Callers : ATSendTimeout(c)
    \/ \E c \in Callers : ATResponse(c)
    \/ \E c \in Callers : ATCancelled(c)

WriteSpec == Init /\ [][WriteNext]_vars

\* the bytes the protocol asks for
Framed(req) ==
    IF req[Len(req)] \in {"<1A>", "<1B>"} THEN req ELSE req \o <<"\r", "\n">>

\* a command that was dequeued has one write if its request is not empty, and
\* none otherwise; a command that was not dequeued has none
C11_WrittenOnce ==
    \A c \in Callers :
        /\ Len(written[c]) <= 1
        /\ pc[c] \in {"idle", "sending"} => written[c] = <<>>
        /\ pc[c] = "waiting" => Len(written[c]) = (IF request[c] = <<>> THEN 0 ELSE 1)
        /\ written[c] # <<>> => written[c] = <<Framed(request[c])>>

\* the write is issued by the step that dequeues the command
C11_WriteStep ==
    \A c \in Callers :
        /\ Wrote(c) => (pc[c] = "sending" /\ pc'[c] = "waiting")
        /\ (pc[c] = "sending" /\ pc'[c] = "waiting" /\ request[c] # <<>>) =>
              written'[c] = <<Framed(request[c])>>

\* C11: for every dequeued command with a non-empty request exactly one write
\* is issued, whose bytes are the request followed by 0x0D 0x0A, except that a
\* request ending in 0x1A or 0x1B is written verbatim.
C11_OneFramedWrite == [](C11_WrittenOnce) /\ [][C11_WriteStep]_vars

\* the string of SendMessage was written as it is
C11_Witness ==
    \E c \in Callers :
        /\ pc[c] = "waiting"
        /\ request[c] = ReqSendMessage
        /\ written[c] = <<ReqSendMessage>>
        /\ ReqSendMessage[Len(ReqSendMessage)] = CtrlZ

(***************************************************************************)
(* COM.ClearSyntaxErrors, run by caller 1 on the transport.                *)
(***************************************************************************)
StrSyntaxError == <<"+","C","M","E"," ","E","R","R","O","R",":"," ","3","5">>
StrCanceled    == <<"c","o","n","t","e","x","t"," ","c","a","n","c","e","l","e","d">>
StrTimeout     == <<"A","T"," ","s","e","n","d","i","n","g"," ","q","u","e","u","e"," ","t","i","m","e","o","u","t">>

LineCmeLower == <<"+","c","m","e"," ","e","r","r","o","r",":"," ","3","5">>
ClearLines   == {LineOkLower, LineCME, LineCmeLower, LineError}

\* err.Error() of what AT returned
ErrorText(res) ==
    IF res.kind = "error" THEN res.err
    ELSE IF res.kind = "cancelled" THEN StrCanceled
    ELSE StrTimeout

\* variant: a retry on every CME error
IsSyntaxErrorAnyCME(msg) == HasPrefix(ToUpper(msg), StrCMEERROR)

\* err.Error() == "+CME ERROR: 35"
IsSyntaxError(msg) == msg = StrSyntaxError

\* ClearSyntaxErrors is called
CSStart ==
    /\ UNCHANGED csFrame
    /\ csPc = "idle"
    /\ pc[1] = "idle"
    /\ csPc' = "running"
    /\ UNCHANGED <<csCalls, csResult>>
    /\ UNCHANGED <<readerVars, loopVars, pc, commandVars, callerVars, written, running>>

\* c.AT(ctx, "AT"): the first call, or the next one after a syntax error; the
\* context is the one ClearSyntaxErrors was called with
CSCallAT ==
    /\ UNCHANGED csFrame
    /\ csPc = "running"
    /\ \/ pc[1] = "idle"
       \/ /\ pc[1] = "done"
          /\ result[1].kind # "ok"
          /\ IsSyntaxError(ErrorText(result[1]))
    /\ csCalls' = csCalls + 1
    /\ pc' = [pc EXCEPT ![1] = "sending"]
    /\ request' = [request EXCEPT ![1] = ReqAT]
    /\ response' = [response EXCEPT ![1] = <<>>]
    /\ err' = [err EXCEPT ![1] = <<>>]
    /\ completed' = [completed EXCEPT ![1] = FALSE]
    /\ cmdLines' = [cmdLines EXCEPT ![1] = <<>>]
    /\ written' = [written EXCEPT ![1] = <<>>]
    /\ result' = [result EXCEPT ![1] = NoResult]
    /\ activeCommand' = IF activeCommand = 1 THEN Orphan ELSE activeCommand
    /\ commandCancelled' = IF commandCancelled = 1 THEN Orphan ELSE commandCancelled
    /\ UNCHANGED <<readerVars, loopPc, cont, activeIndication, closed, indications,
                   ctxDone, running, csPc, csResult>>

\* return nil, or return err
CSReturn ==
    /\ UNCHANGED csFrame
    /\ csPc = "running"
    /\ pc[1] = "done"
    /\ IF result[1].kind = "ok"
       THEN csResult' = <<>>
       ELSE /\ ~IsSyntaxError(ErrorText(result[1]))
            /\ csResult' = ErrorText(result[1])
    /\ csPc' = "returned"
    /\ UNCHANGED csCalls
    /\ UNCHANGED <<readerVars, loopVars, pc, commandVars, callerVars, written, running>>

ClearNext ==
    \/ \E line \in ClearLines : ReaderEmit(line)
    \/ ReaderEOF
    \/ LoopLine
    \/ LoopClosed
    \/ LoopCancelled
    \/ LoopTick
    \/ CSStart
    \/ CSCallAT
    \/ CSReturn
    \/ \E c \in Callers : Cancel(c)
    \/ \E c \in Callers : ATSendCancelled(c)
    \/ \E c \in Callers : ATSendTimeout(c)
    \/ \E c \in Callers : ATResponse(c)
    \/ \E c \in Callers : ATError(c)
    \/ \E c \in Callers : ATCancelled(c)

ClearSpec == Init /\ [][ClearNext]_vars

(***************************************************************************)
(* C12.  ClearSyntaxErrors.                                                *)
(***************************************************************************)
\* the last call failed with exactly the syntax error
FailedWithSyntaxError ==
    /\ pc[1] = "done"
    /\ result[1].kind = "error"
    /\ result[1].err = <<"+","C","M","E"," ","E","R","R","O","R",":"," ","3","5">>

\* what ClearSyntaxErrors returned is the outcome of its last call, which was
\* not the syntax error
C12_Returned ==
    /\ csPc = "idle" => (csCalls = 0 /\ pc[1] = "idle")
    /\ csPc = "returned" =>
          /\ csCalls >= 1
          /\ pc[1] = "done"
          /\ ~FailedWithSyntaxError
          /\ csResult = <<>> <=> result[1].kind = "ok"
          /\ result[1].kind = "error" => csResult = result[1].err
          /\ result[1].kind = "cancelled" => csResult = StrCanceled
          /\ result[1].kind = "timeout" => csResult = StrTimeout
    /\ (csPc = "running" /\ pc[1] = "done") =>
          IF FailedWithSyntaxError
          THEN ENABLED CSCallAT /\ ~ENABLED CSReturn
          ELSE ENABLED CSReturn /\ ~ENABLED CSCallAT

\* a call is issued for the request AT when none is under way, the first time or
\* after the syntax error; once returned, ClearSyntaxErrors issues nothing
C12_Step ==
    /\ csCalls' # csCalls =>
          /\ csCalls' = csCalls + 1
          /\ csPc = "running" /\ csPc' = "running"
          /\ pc[1] \in {"idle", "done"} /\ pc'[1] = "sending"
          /\ request'[1] = <<"A","T">>
          /\ csCalls = 0 <=> pc[1] = "idle"
          /\ csCalls > 0 => FailedWithSyntaxError
    /\ (pc'[1] = "sending" /\ pc[1] # "sending") => csCalls' = csCalls + 1
    /\ csPc = "returned" => (csPc' = "returned" /\ pc' = pc /\ csResult' = csResult)

\* C12: ClearSyntaxErrors issues the request AT repeatedly, one call at a time:
\* it returns success at the first call that succeeds, issues another call iff
\* the previous one failed with exactly '+CME ERROR: 35', and returns any other
\* error, cancellation and the sending-queue timeout included, at once.
C12_ClearSyntaxErrors == [](C12_Returned) /\ [][C12_Step]_vars

\* success at the second call, after one syntax error
C12_Witness ==
    /\ csPc = "returned"
    /\ csCalls = 2
    /\ csResult = <<>>

(***************************************************************************)
(* readLoop: the goroutine that turns the bytes of an io.Reader into       *)
(* lines.  Bytes are numbers, so that the comparison b < ' ' is computed.  *)
(* The channel is seen from its receiving end: rlOut is the sequence of    *)
(* lines sent, rlClosed the close.                                         *)
(***************************************************************************)
MaxBytes == 4

readBufferSize == 1024

ByteLF    == 10
ByteCR    == 13
ByteSpace == 32
ByteA     == 97
Bytes     == {ByteLF, ByteCR, ByteSpace, ByteA}

\* the contents of buf[0:n] after one Read call, n in 0..k
Chunks(k) == UNION {[1..n -> Bytes] : n \in 0..k}

RECURSIVE FeedBytes(_, _, _)
\* for _, b := range buf[0:n]: the currentLine and the lines sent afterwards
FeedBytes(line, out, chunk) ==
    IF chunk = <<>>
    THEN [line |-> line, out |-> out]
    ELSE LET b == Head(chunk) IN
         IF b = ByteLF
         THEN IF Len(line) = 0
              THEN FeedBytes(line, out, Tail(chunk))
              ELSE FeedBytes(<<>>, Append(out, line), Tail(chunk))
         ELSE IF b < ByteSpace
              THEN FeedBytes(line, out, Tail(chunk))
              ELSE FeedBytes(Append(line, b), out, Tail(chunk))

\* r.Read(buf) returns (n, nil) with n > 0: the bytes are fed to the line
ReadBytes(chunk) ==
    /\ UNCHANGED rlFrame
    /\ ~rlClosed
    /\ Len(chunk) > 0
    /\ Len(chunk) <= readBufferSize
    /\ Len(rlAll) + Len(chunk) <= MaxBytes
    /\ rlAll' = rlAll \o chunk
    /\ LET fed == FeedBytes(rlLine, rlOut, chunk) IN
          /\ rlLine' = fed.line
          /\ rlOut' = fed.out
    /\ UNCHANGED <<rlLast, rlClosed, rlEnd>>

\* r.Read(buf) returns (n, io.EOF) or (n, another error), n >= 0: both
\* branches return before buf[0:n] is looked at, send a non-empty
\* currentLine and close the channel
ReadEnd(chunk, how) ==
    /\ UNCHANGED rlFrame
    /\ ~rlClosed
    /\ Len(chunk) <= readBufferSize
    /\ Len(rlAll) + Len(chunk) <= MaxBytes
    /\ rlAll' = rlAll \o chunk
    /\ rlLast' = Len(chunk)
    /\ rlOut' = IF Len(rlLine) > 0 THEN Append(rlOut, rlLine) ELSE rlOut
    /\ rlClosed' = TRUE
    /\ rlEnd' = how
    /\ UNCHANGED rlLine

ReadLoopNext ==
    \/ \E chunk \in Chunks(MaxBytes) : ReadBytes(chunk)
    \/ \E chunk \in Chunks(MaxBytes), how \in {"EOF", "error"} : ReadEnd(chunk, how)

ReadLoopSpec == Init /\ [][ReadLoopNext]_vars

\* ---- the lines a byte sequence stands for, computed from the whole input

RECURSIVE Split(_, _)
\* the runs of bytes between line-feeds, the empty ones and the last one included
Split(bytes, run) ==
    IF bytes = <<>>
    THEN <<run>>
    ELSE IF Head(bytes) = 10
         THEN <<run>> \o Split(Tail(bytes), <<>>)
         ELSE Split(Tail(bytes), Append(run, Head(bytes)))

Printable(bytes) == SelectSeq(bytes, LAMBDA b : b >= 32 \/ b = 10)
NonEmpty(runs)   == SelectSeq(runs, LAMBDA r : r # <<>>)
Runs(bytes)      == Split(Printable(bytes), <<>>)
AllButLast(runs) == SubSeq(runs, 1, Len(runs) - 1)

\* the bytes the reader delivered before the Read call that reported the end
BeforeEnd == SubSeq(rlAll, 1, Len(rlAll) - rlLast)

\* C13 (as stated): for every byte sequence delivered by the reader in any
\* chunking and then ended by end-of-stream or a read error, the lines
\* emitted are, in input order, exactly the non-empty runs of bytes between
\* line-feeds after deleting every byte below 0x20 other than the line-feed:
\* no empty line, the pending partial line emitted at the end, then the close.
C13_EmitsTheRunsOfTheInput ==
    /\ \A i \in 1..Len(rlOut) : rlOut[i] # <<>>
    /\ ~rlClosed =>
          /\ rlOut = NonEmpty(AllButLast(Runs(rlAll)))
          /\ rlLine = Runs(rlAll)[Len(Runs(rlAll))]
    /\ rlClosed =>
          /\ rlEnd \in {"EOF", "error"}
          /\ rlOut = NonEmpty(Runs(rlAll))

\* what the code does: the statement holds of the bytes delivered before the
\* Read call that reported the end; the bytes of that call are never looked at
C13_EmitsTheRunsBeforeTheEnd ==
    /\ \A i \in 1..Len(rlOut) : rlOut[i] # <<>>
    /\ ~rlClosed =>
          /\ rlOut = NonEmpty(AllButLast(Runs(rlAll)))
          /\ rlLine = Runs(rlAll)[Len(Runs(rlAll))]
    /\ rlClosed =>
          /\ rlEnd \in {"EOF", "error"}
          /\ rlOut = NonEmpty(Runs(BeforeEnd))

\* nothing is emitted after the close
C13_ClosedStep == rlClosed => (rlOut' = rlOut /\ rlClosed')

C13_BeforeTheEnd == [](C13_EmitsTheRunsBeforeTheEnd) /\ [][C13_ClosedStep]_vars

\* a line-feed-terminated line and a pending one, partly control bytes, are
\* both emitted when the end is reported by a call of its own
C13_Reached ==
    /\ rlClosed
    /\ rlLast = 0
    /\ rlAll = <<ByteA, ByteCR, ByteLF, ByteSpace>>
    /\ rlOut = <<(<<ByteA>>), (<<ByteSpace>>)>>

\* bytes returned together with the end are lost
C13_LostBytes ==
    /\ rlClosed
    /\ rlLast > 0
    /\ rlOut # NonEmpty(Runs(rlAll))

(***************************************************************************)
(* The SDS reassembly stack (package sds): Stack.Put and putSDSTransfer.   *)
(* A Put call is one step: the action records its argument, the error it   *)
(* returned and the arguments of every callback it invoked; PutReturn is   *)
(* the caller going on after the call.                                     *)
(***************************************************************************)
MaxParts == 2

TextMessaging            == 130
ImmediateTextMessaging   == 137
UserDataHeaderMessaging  == 138
ConcatenatedSDSMessaging == 140
Callout                  == 195

SDSReportMessage == 1

NoReportRequested                         == 0
MessageReceivedReportRequested            == 1
MessageConsumedReportRequested            == 2
MessageReceivedAndConsumedReportRequested == 3

ReceiptAckByDestination == 0

Status4 == 32774

SwitchToSDSTL ==
    <<"A","T","+","C","T","S","D","S","=","1","2",",","0",",","0",",","0",",","1">>

\* ---- the values Put is called with

IdentityA == <<"1","2">>
IdentityB == <<"3","4">>
Headers ==
    { [Source |-> IdentityA, Destination |-> IdentityB],
      [Source |-> IdentityB, Destination |-> IdentityB],
      [Source |-> IdentityA, Destination |-> IdentityA] }

\* message references: the one of the concatenated message, and another one
Reference      == 201
OtherReference == 202

Texts      == {"a", "b"}
ZeroTime   == 0
Timestamps == {1, 2}

TextSDUs ==
    { [kind |-> "TextSDU", Timestamp |-> 1, Text |-> "a"] }

ConcatenatedTextSDUs ==
    { [kind |-> "ConcatenatedTextSDU", Timestamp |-> 1, Text |-> text,
       UserDataHeader |-> [MessageReference |-> Reference, TotalNumber |-> total,
                           SequenceNumber |-> seq]] :
        text \in Texts, total \in 1..MaxParts, seq \in 1..MaxParts }

ConcatenatedSDSMessageSDUs ==
    { [kind |-> "ConcatenatedSDSMessageSDU", ConcatenationReference |-> Reference,
       TotalNumber |-> total, SequenceNumber |-> seq, PayloadData |-> "a"] :
        total \in 1..MaxParts, seq \in 1..MaxParts }

CalloutAlerts == { [kind |-> "CalloutAlert"] }

SDSTransfers ==
    { [kind |-> "SDSTransfer", protocol |-> protocol, DeliveryReportRequest |-> report,
       MessageReference |-> reference, UserData |-> sdu] :
        protocol \in {TextMessaging, ImmediateTextMessaging},
        report \in NoReportRequested..MessageReceivedAndConsumedReportRequested,
        reference \in {Reference, OtherReference},
        sdu \in TextSDUs }
    \cup
    { [kind |-> "SDSTransfer", protocol |-> UserDataHeaderMessaging,
       DeliveryReportRequest |-> NoReportRequested,
       MessageReference |-> OtherReference, UserData |-> sdu] :
        sdu \in ConcatenatedTextSDUs }
    \cup
    { [kind |-> "SDSTransfer", protocol |-> ConcatenatedSDSMessaging,
       DeliveryReportRequest |-> NoReportRequested,
       MessageReference |-> OtherReference, UserData |-> sdu] :
        sdu \in ConcatenatedSDSMessageSDUs }
    \cup
    { [kind |-> "SDSTransfer", protocol |-> Callout,
       DeliveryReportRequest |-> MessageReceivedReportRequested,
       MessageReference |-> Reference, UserData |-> sdu] :
        sdu \in CalloutAlerts }

\* what ParseIncomingMessage can hand over besides SDS-TRANSFER
OtherPayloads ==
    { [kind |-> "Status", Value |-> Status4],
      [kind |-> "SimpleTextMessage", Text |-> "a"],
      [kind |-> "SDSReport"],
      [kind |-> "SDSAcknowledge"],
      [kind |-> "SDSShortReport"] }

IncomingMessages ==
    { [Header |-> header, Payload |-> payload] :
        header \in Headers, payload \in SDSTransfers \cup OtherPayloads }

\* ---- Message

NewMessage(id, source, destination, timestamp, parts) ==
    [ID |-> id, Source |-> source, Destination |-> destination, Timestamp |-> timestamp,
     parts |-> [i \in 1..parts |-> [Valid |-> FALSE, Text |-> ""]]]

Complete(m) == \A i \in 1..Len(m.parts) : m.parts[i].Valid

\* variant: the text goes to the first part that is not valid yet
SetPartNextFree(m, i, text) ==
    LET free == {j \in 1..Len(m.parts) : ~m.parts[j].Valid} IN
    IF free = {}
    THEN m
    ELSE [m EXCEPT !.parts[CHOOSE j \in free : \A k \in free : j <= k] =
                       [Valid |-> TRUE, Text |-> text]]

SetPart(m, i, text) ==
    IF i - 1 < 0 \/ i - 1 >= Len(m.parts)
    THEN m
    ELSE [m EXCEPT !.parts[i] = [Valid |-> TRUE, Text |-> text]]

\* ---- the receipt report

ReceivedReportRequested(m) ==
    \/ m.DeliveryReportRequest = MessageReceivedReportRequested
    \/ m.DeliveryReportRequest = MessageReceivedAndConsumedReportRequested

NewSDSReport(sdsTransfer, ackRequired, deliveryStatus) ==
    [protocol |-> sdsTransfer.protocol, AckRequired |-> ackRequired,
     DeliveryStatus |-> deliveryStatus, MessageReference |-> sdsTransfer.MessageReference]

\* SDSReport.Encode on an empty buffer: the bytes and the bit count
SDSReportEncode(r) ==
    LET byte1 == (SDSReportMessage * 16) + (IF r.AckRequired THEN 8 ELSE 0)
        bytes == <<r.protocol, byte1 % 256, r.DeliveryStatus, r.MessageReference>>
    IN  [bytes |-> bytes, bits |-> 8 * Len(bytes)]

HexDigits == <<"0","1","2","3","4","5","6","7","8","9","A","B","C","D","E","F">>

RECURSIVE BinaryToHex(_)
BinaryToHex(pdu) ==
    IF pdu = <<>>
    THEN <<>>
    ELSE <<HexDigits[(Head(pdu) \div 16) + 1], HexDigits[(Head(pdu) % 16) + 1]>>
            \o BinaryToHex(Tail(pdu))

\* SendMessage(destination, message) for a message that is an SDS-REPORT
SendReport(destination, report) ==
    LET pdu == SDSReportEncode(report)
    IN  SendMessage(destination, pdu.bits, BinaryToHex(pdu.bytes))

\* ---- Put

Store(pending, id, message) ==
    [i \in DOMAIN pending \cup {id} |-> IF i = id THEN message ELSE pending[i]]

Delete(pending, id) ==
    [i \in DOMAIN pending \ {id} |-> pending[i]]

Outcome(pending, e, ms, sts, rs) ==
    [pending |-> pending, err |-> e, messages |-> ms, statuses |-> sts, responses |-> rs]

ErrUnexpectedMessageType == "unexpected message type"
ErrUnexpectedSDU         == "unexpected SDS-TRANSFER SDU"
ErrPartDoesNotMatch      == "part does not match message"

\* the last statement of putSDSTransfer
\* variant: a stack that keeps the message it has handed to the callback
EmitAndKeep(pending, mcb, message, rs) ==
    IF Complete(message) /\ mcb
    THEN Outcome(Store(pending, message.ID, message), "", <<message>>, <<>>, rs)
    ELSE Outcome(Store(pending, message.ID, message), "", <<>>, <<>>, rs)

Emit(pending, mcb, message, rs) ==
    IF Complete(message) /\ mcb
    THEN Outcome(Delete(pending, message.ID), "", <<message>>, <<>>, rs)
    ELSE Outcome(Store(pending, message.ID, message), "", <<>>, <<>>, rs)

\* variant: a part with another total number of parts is accepted
PutPartOfAnyTotal(pending, mcb, header, messageID, timestamp, total, seq, text) ==
    IF messageID \notin DOMAIN pending
    THEN Emit(pending, mcb,
              SetPart(NewMessage(messageID, header.Source, header.Destination,
                                 timestamp, total), seq, text),
              <<>>)
    ELSE LET message == pending[messageID] IN
         IF \/ message.Source # header.Source
            \/ message.Destination # header.Destination
         THEN Outcome(pending, ErrPartDoesNotMatch, <<>>, <<>>, <<>>)
         ELSE Emit(pending, mcb, SetPart(message, seq, text), <<>>)

\* the two concatenated cases of putSDSTransfer
PutPart(pending, mcb, header, messageID, timestamp, total, seq, text) ==
    IF messageID \notin DOMAIN pending
    THEN Emit(pending, mcb,
              SetPart(NewMessage(messageID, header.Source, header.Destination,
                                 timestamp, total), seq, text),
              <<>>)
    ELSE LET message == pending[messageID] IN
         IF \/ message.Source # header.Source
            \/ message.Destination # header.Destination
            \/ Len(message.parts) # total
         THEN Outcome(pending, ErrPartDoesNotMatch, <<>>, <<>>, <<>>)
         ELSE Emit(pending, mcb, SetPart(message, seq, text), <<>>)

\* variant: the report is sent whatever the transfer asked for
ReportWantedAlways(rcb, sdsTransfer) == rcb

\* s.responseCallback != nil && sdsTransfer.ReceivedReportRequested()
ReportWanted(rcb, sdsTransfer) == rcb /\ ReceivedReportRequested(sdsTransfer)

putSDSTransfer(pending, mcb, rcb, header, sdsTransfer, now) ==
    LET sdu == sdsTransfer.UserData IN
    CASE sdu.kind = "TextSDU" ->
            LET message == SetPart(NewMessage(sdsTransfer.MessageReference, header.Source,
                                              header.Destination, sdu.Timestamp, 1),
                                   1, sdu.Text)
                sdsReport == NewSDSReport(sdsTransfer, FALSE, ReceiptAckByDestination)
                rs == IF ReportWanted(rcb, sdsTransfer)
                      THEN << <<SwitchToSDSTL, SendReport(header.Source, sdsReport)>> >>
                      ELSE <<>>
            IN  Emit(pending, mcb, message, rs)
      [] sdu.kind = "ConcatenatedTextSDU" ->
            PutPart(pending, mcb, header, sdu.UserDataHeader.MessageReference,
                    sdu.Timestamp, sdu.UserDataHeader.TotalNumber,
                    sdu.UserDataHeader.SequenceNumber, sdu.Text)
      [] sdu.kind = "ConcatenatedSDSMessageSDU" ->
            PutPart(pending, mcb, header, sdu.ConcatenationReference, now,
                    sdu.TotalNumber, sdu.SequenceNumber, sdu.PayloadData)
      [] OTHER ->
            Outcome(pending, ErrUnexpectedSDU, <<>>, <<>>, <<>>)

\* Stack.Put as a function of the stack and of the argument
PutOutcome(pending, mcb, scb, rcb, part, now) ==
    LET payload == part.Payload IN
    CASE payload.kind = "Status" ->
            IF ~scb
            THEN Outcome(pending, "", <<>>, <<>>, <<>>)
            ELSE Outcome(pending, "", <<>>,
                         << [Source |-> part.Header.Source,
                             Destination |-> part.Header.Destination,
                             Value |-> payload.Value] >>, <<>>)
      [] payload.kind = "SimpleTextMessage" ->
            IF ~mcb
            THEN Outcome(pending, "", <<>>, <<>>, <<>>)
            ELSE Outcome(pending, "",
                         << SetPart(NewMessage(0, part.Header.Source, part.Header.Destination,
                                               ZeroTime, 1), 1, payload.Text) >>,
                         <<>>, <<>>)
      [] payload.kind = "SDSTransfer" ->
            putSDSTransfer(pending, mcb, rcb, part.Header, payload, now)
      [] OTHER ->
            Outcome(pending, ErrUnexpectedMessageType, <<>>, <<>>, <<>>)

\* the argument is a part of a concatenated message
IsPart(part) ==
    /\ part.Payload.kind = "SDSTransfer"
    /\ part.Payload.UserData.kind \in {"ConcatenatedTextSDU", "ConcatenatedSDSMessageSDU"}

TotalOf(part) ==
    IF part.Payload.UserData.kind = "ConcatenatedTextSDU"
    THEN part.Payload.UserData.UserDataHeader.TotalNumber
    ELSE part.Payload.UserData.TotalNumber

SeqOf(part) ==
    IF part.Payload.UserData.kind = "ConcatenatedTextSDU"
    THEN part.Payload.UserData.UserDataHeader.SequenceNumber
    ELSE part.Payload.UserData.SequenceNumber

\* err := stack.Put(part); now is what time.Now() returns during the call
Put(part, now) ==
    /\ UNCHANGED stackFrame
    /\ put = NoPut
    /\ LET o == PutOutcome(pendingMessages, messageCallback, statusCallback,
                           responseCallback, part, now)
       IN  /\ pendingMessages' = o.pending
           /\ putErr' = o.err
           /\ messages' = o.messages
           /\ statuses' = o.statuses
           /\ responses' = o.responses
           /\ supplied' =
                 IF IsPart(part) /\ o.err = ""
                 THEN IF o.messages # <<>>
                      THEN {}
                      ELSE supplied \cup ({SeqOf(part)} \cap (1..TotalOf(part)))
                 ELSE supplied
    /\ put' = part
    /\ UNCHANGED <<messageCallback, statusCallback, responseCallback>>

\* the caller has taken the result of the call
PutReturn ==
    /\ UNCHANGED stackFrame
    /\ put # NoPut
    /\ put' = NoPut
    /\ putErr' = ""
    /\ messages' = <<>>
    /\ statuses' = <<>>
    /\ responses' = <<>>
    /\ UNCHANGED <<messageCallback, statusCallback, responseCallback, pendingMessages,
                   supplied>>

\* NewStack() followed by any of WithMessageCallback, WithStatusCallback and
\* WithResponseCallback
StackInit ==
    /\ ComInit
    /\ ReIdle
    /\ VpIdle
    /\ SdsIdle
    /\ messageCallback \in BOOLEAN
    /\ statusCallback \in BOOLEAN
    /\ responseCallback \in BOOLEAN
    /\ pendingMessages = <<>>
    /\ supplied = {}
    /\ PutIdle

\* the instants time.Now() can return during a Put of the part
Now(part) ==
    IF part.Payload.kind = "SDSTransfer"
          /\ part.Payload.UserData.kind = "ConcatenatedSDSMessageSDU"
    THEN Timestamps
    ELSE {1}

StackNext ==
    \/ \E part \in IncomingMessages : \E now \in Now(part) : Put(part, now)
    \/ PutReturn

StackSpec == StackInit /\ [][StackNext]_vars

StackTypeOK == put \in IncomingMessages \cup {NoPut}

\* ---- vocabulary of the claims about the Stack

\* a Put call has just run
PutStep == put = NoPut /\ put' # NoPut

IsTextPart(part) ==
    /\ part.Payload.kind = "SDSTransfer"
    /\ part.Payload.UserData.kind = "ConcatenatedTextSDU"

IsTextTransfer(part) ==
    /\ part.Payload.kind = "SDSTransfer"
    /\ part.Payload.UserData.kind = "TextSDU"

ValidParts(m) == {i \in 1..Len(m.parts) : m.parts[i].Valid}

\* C14, between the Puts: with a message callback registered, the parts Put
\* so far for the message are the valid parts of its pending entry
C14_Pending ==
    messageCallback =>
        /\ supplied # {} => Reference \in DOMAIN pendingMessages
        /\ Reference \in DOMAIN pendingMessages =>
              ValidParts(pendingMessages[Reference]) = supplied

\* C14, at a Put of a part of a concatenated text message that returns no
\* error: the callback is invoked iff no part is missing any more, with the
\* UDH message reference as id and every part's text at its sequence
\* number, and the entry is removed; otherwise the part is kept
C14_Step ==
    (PutStep /\ messageCallback /\ IsTextPart(put') /\ putErr' = "") =>
        LET udh   == put'.Payload.UserData.UserDataHeader
            n     == udh.TotalNumber
            seq   == udh.SequenceNumber
            text  == put'.Payload.UserData.Text
            have  == supplied \cup ({seq} \cap (1..n))
            known == Reference \in DOMAIN pendingMessages
        IN  IF have = 1..n
            THEN /\ Len(messages') = 1
                 /\ messages'[1].ID = udh.MessageReference
                 /\ messages'[1].ID # put'.Payload.MessageReference
                 /\ messages'[1].Source = put'.Header.Source
                 /\ messages'[1].Destination = put'.Header.Destination
                 /\ Len(messages'[1].parts) = n
                 /\ \A i \in 1..n :
                       /\ messages'[1].parts[i].Valid
                       /\ messages'[1].parts[i].Text =
                             IF i = seq
                             THEN text
                             ELSE IF known /\ Len(pendingMessages[Reference].parts) = n
                                  THEN pendingMessages[Reference].parts[i].Text
                                  ELSE ""
                 /\ udh.MessageReference \notin DOMAIN pendingMessages'
            ELSE /\ messages' = <<>>
                 /\ udh.MessageReference \in DOMAIN pendingMessages'
                 /\ ValidParts(pendingMessages'[udh.MessageReference]) = have

\* C14: for an N-part concatenated text message whose parts share source,
\* destination, UDH message reference and total, with a message callback
\* registered, the callback is not invoked while a part is missing and is
\* invoked exactly once, by the Put that supplies the last missing part, with
\* the UDH message reference as id and the part texts in sequence-number
\* order; the pending entry is removed at that point.
C14_InvokedByTheLastMissingPart == [](C14_Pending) /\ [][C14_Step]_vars

\* the same stack when no text transfer carries the reference of the
\* concatenated message: there the statement of C14 holds
SeparateReferences ==
    {part \in IncomingMessages :
        IsTextTransfer(part) => part.Payload.MessageReference # Reference}

SeparateNext ==
    \/ \E part \in SeparateReferences : \E now \in Now(part) : Put(part, now)
    \/ PutReturn

SeparateSpec == StackInit /\ [][SeparateNext]_vars

(***************************************************************************)
(* Reassembly in two orders: the parts of one concatenated text message    *)
(* are Put into one stack in the order reOrder and into a second stack in  *)
(* the order of their sequence numbers; both have a message callback.      *)
(***************************************************************************)
MaxOrdered == 3

Orders(n) == {f \in [1..n -> 1..n] : \A i, j \in 1..n : f[i] = f[j] => i = j}

\* part i of the message
PartOf(parts, i) ==
    [Header |-> [Source |-> IdentityA, Destination |-> IdentityB],
     Payload |-> [kind |-> "SDSTransfer", protocol |-> UserDataHeaderMessaging,
                  DeliveryReportRequest |-> NoReportRequested,
                  MessageReference |-> OtherReference,
                  UserData |-> [kind |-> "ConcatenatedTextSDU",
                                Timestamp |-> parts[i].Timestamp, Text |-> parts[i].Text,
                                UserDataHeader |-> [MessageReference |-> Reference,
                                                    TotalNumber |-> Len(parts),
                                                    SequenceNumber |-> i]]]]

ReInit ==
    /\ ComInit
    /\ NewStack
    /\ VpIdle
    /\ SdsIdle
    /\ \E n \in 1..MaxOrdered :
          /\ reParts \in [1..n -> [Text : Texts, Timestamp : Timestamps]]
          /\ reOrder \in Orders(n)
    /\ reStep = 0
    /\ rePending = <<(<<>>), (<<>>)>>
    /\ reMessages = <<(<<>>), (<<>>)>>

\* stack.Put(part) on both stacks, each with its next part
RePut ==
    /\ UNCHANGED reFrame
    /\ reStep < Len(reParts)
    /\ LET first  == PutOutcome(rePending[1], TRUE, FALSE, FALSE,
                                PartOf(reParts, reOrder[reStep + 1]), 1)
           second == PutOutcome(rePending[2], TRUE, FALSE, FALSE,
                                PartOf(reParts, reStep + 1), 1)
       IN  /\ rePending' = <<first.pending, second.pending>>
           /\ reMessages' = <<reMessages[1] \o first.messages,
                              reMessages[2] \o second.messages>>
    /\ reStep' = reStep + 1
    /\ UNCHANGED <<reParts, reOrder>>

ReNext == RePut

ReSpec == ReInit /\ [][ReNext]_vars

\* every part has been Put into both stacks
ReDone == reStep > 0 /\ reStep = Len(reParts)

\* C15 (as stated): reassembly is order-independent: for every message of N
\* parts and every permutation of the order in which its parts are Put, the
\* Message delivered on completion is the same: same id, source, destination,
\* timestamp and ordered part texts.
C15_SameMessageInEveryOrder ==
    ReDone =>
        /\ Len(reMessages[1]) = 1
        /\ reMessages[1] = reMessages[2]

\* C15 (amended): for every message of N parts and every permutation of the
\* order in which its parts are Put, the Message delivered on completion has
\* the same id, source, destination and ordered part texts; its timestamp is
\* the timestamp of the part that was Put first.
C15_SameTextsInEveryOrder ==
    /\ ~ReDone => (reMessages[1] = <<>> /\ reMessages[2] = <<>>)
    /\ ReDone =>
          /\ Len(reMessages[1]) = 1
          /\ Len(reMessages[2]) = 1
          /\ LET first == reMessages[1][1]  second == reMessages[2][1] IN
                /\ first.ID = second.ID
                /\ first.ID = Reference
                /\ first.Source = second.Source
                /\ first.Destination = second.Destination
                /\ first.parts = second.parts
                /\ \A i \in 1..Len(reParts) :
                      first.parts[i] = [Valid |-> TRUE, Text |-> reParts[i].Text]
                /\ first.Timestamp = reParts[reOrder[1]].Timestamp
                /\ second.Timestamp = reParts[1].Timestamp
          /\ rePending = <<(<<>>), (<<>>)>>

\* three parts with different texts, Put in the order 3, 1, 2
C15_Witness ==
    /\ ReDone
    /\ Len(reParts) = 3
    /\ reOrder = <<3, 1, 2>>
    /\ reParts[1].Text # reParts[2].Text
    /\ reParts[3].Timestamp # reParts[1].Timestamp
    /\ Len(reMessages[1]) = 1

\* ---- C16

\* the id under which putSDSTransfer looks a part up
IdOf(part) ==
    IF part.Payload.UserData.kind = "ConcatenatedTextSDU"
    THEN part.Payload.UserData.UserDataHeader.MessageReference
    ELSE part.Payload.UserData.ConcatenationReference

\* the part does not fit the pending entry with its id
Mismatch(part, pending) ==
    /\ IsPart(part)
    /\ IdOf(part) \in DOMAIN pending
    /\ \/ pending[IdOf(part)].Source # part.Header.Source
       \/ pending[IdOf(part)].Destination # part.Header.Destination
       \/ Len(pending[IdOf(part)].parts) # TotalOf(part)

\* a payload or an SDS-TRANSFER SDU the stack does not handle
Unhandled(part) ==
    \/ part.Payload.kind \in {"SDSReport", "SDSAcknowledge", "SDSShortReport"}
    \/ /\ part.Payload.kind = "SDSTransfer"
       /\ part.Payload.UserData.kind = "CalloutAlert"

C16_Step ==
    PutStep =>
        /\ putErr' # "" =>
              /\ pendingMessages' = pendingMessages
              /\ messages' = <<>>
              /\ statuses' = <<>>
              /\ responses' = <<>>
        /\ putErr' # "" <=> (Mismatch(put', pendingMessages) \/ Unhandled(put'))
        /\ Mismatch(put', pendingMessages) => putErr' = ErrPartDoesNotMatch

\* C16: every Put that returns an error leaves the pending map exactly as it
\* was and invokes no callback; a concatenated part whose source, destination
\* or total number of parts differs from the pending entry with the same id is
\* rejected with an error, and so are SDS-REPORT, SDS-ACK, SDS-SHORT-REPORT
\* and a transfer that carries a callout alert.
C16_RejectedPutChangesNothing == [][C16_Step]_vars

\* a part announcing another total than the pending entry has been rejected
C16_Witness ==
    /\ put # NoPut
    /\ IsPart(put)
    /\ putErr = ErrPartDoesNotMatch
    /\ Reference \in DOMAIN pendingMessages
    /\ pendingMessages[Reference].Source = put.Header.Source
    /\ pendingMessages[Reference].Destination = put.Header.Destination
    /\ Len(pendingMessages[Reference].parts) # TotalOf(put)
    /\ ValidParts(pendingMessages[Reference]) # {}

\* ---- C17

C17_NothingComplete ==
    ~messageCallback =>
        \A id \in DOMAIN pendingMessages : ~Complete(pendingMessages[id])

C17_Step ==
    PutStep =>
        /\ (put'.Payload.kind = "Status" /\ ~statusCallback) =>
              /\ putErr' = ""
              /\ statuses' = <<>>
              /\ pendingMessages' = pendingMessages
        /\ (put'.Payload.kind = "SimpleTextMessage" /\ ~messageCallback) =>
              /\ putErr' = ""
              /\ messages' = <<>>
              /\ pendingMessages' = pendingMessages
        /\ (IsTextTransfer(put') /\ ~messageCallback) =>
              /\ putErr' = ""
              /\ messages' = <<>>
              /\ put'.Payload.MessageReference \notin DOMAIN pendingMessages'
        /\ (IsTextTransfer(put') /\ ~responseCallback) =>
              /\ putErr' = ""
              /\ responses' = <<>>

\* C17 (as stated): when the callback for an event is not registered, the
\* event is silently dropped and nothing is buffered: with no message callback
\* registered, a Put of a complete message (a text transfer, or the last part
\* of a concatenated message) returns no error and leaves no entry for that
\* message in the pending map.
C17_DroppedWithoutCallback == [](C17_NothingComplete) /\ [][C17_Step]_vars

\* ---- C18

HexOfProtocol(protocol) ==
    IF protocol = TextMessaging THEN <<"8","2">> ELSE <<"8","9">>

HexOfReference(reference) ==
    IF reference = Reference THEN <<"C","9">> ELSE <<"C","A">>

\* the request that sends the receipt report for the transfer to its source
ReceiptReportFor(part) ==
    <<"A","T","+","C","M","G","S","=">> \o part.Header.Source \o <<",","3","2","\r","\n">>
        \o HexOfProtocol(part.Payload.protocol) \o <<"1","0","0","0">>
        \o HexOfReference(part.Payload.MessageReference) \o <<"<1A>">>

C18_Step ==
    (PutStep /\ IsTextTransfer(put')) =>
        /\ putErr' = ""
        /\ IF /\ responseCallback
              /\ put'.Payload.DeliveryReportRequest \in
                    {MessageReceivedReportRequested, MessageReceivedAndConsumedReportRequested}
           THEN responses' =
                   << << <<"A","T","+","C","T","S","D","S","=","1","2",",","0",",","0",",",
                           "0",",","1">>,
                         ReceiptReportFor(put') >> >>
           ELSE responses' = <<>>

\* C18: for a Put of an SDS-TRANSFER carrying a TextSDU, the response callback
\* is invoked iff a response callback is registered and the delivery-report
\* request of the transfer is 'received' or 'received and consumed'; it is
\* then invoked exactly once with the two requests SwitchToSDSTL and
\* SendMessage(header source, report), the report being an SDS-REPORT with the
\* transfer's protocol identifier and message reference, ack-required false and
\* status ReceiptAckByDestination, whether or not a message callback is
\* registered.
C18_ReceiptReport == [][C18_Step]_vars

\* the report has been handed over by a stack without a message callback
C18_Witness ==
    /\ put # NoPut
    /\ IsTextTransfer(put)
    /\ put.Payload.DeliveryReportRequest = MessageReceivedAndConsumedReportRequested
    /\ put.Payload.protocol = ImmediateTextMessaging
    /\ ~messageCallback
    /\ Len(responses) = 1
    /\ Len(responses[1]) = 2

\* the same with a message callback, which got the message in the same call
C18_WitnessWithMessage ==
    /\ put # NoPut
    /\ IsTextTransfer(put)
    /\ messageCallback
    /\ Len(messages) = 1
    /\ Len(responses) = 1

(***************************************************************************)
(* ValidityPeriod: ParseValidityPeriod and ValidityPeriod.Encode.  A       *)
(* time.Duration is a number of nanoseconds; it is kept as whole seconds   *)
(* (rounded down) and the nanoseconds above them, so that -1 ns is         *)
(* [sec |-> -1, nsec |-> 999999999].                                       *)
(***************************************************************************)
MaxSlack == 1

NanosPerSecond == 1000000000

Second == 1
Minute == 60
Hour   == 3600

Dur(seconds) == [sec |-> seconds, nsec |-> 0]

InfinitelyValid == [sec |-> -1, nsec |-> NanosPerSecond - 1]

\* a <= b, a > 0 and a == 0 on durations
DurLe(a, b) == a.sec < b.sec \/ (a.sec = b.sec /\ a.nsec <= b.nsec)
DurIsZero(d) == d.sec = 0 /\ d.nsec = 0

\* integer conversion and division of Go: towards zero
Quot(a, b) == IF a >= 0 THEN a \div b ELSE -((-a) \div b)

\* byte(x)
Byte(x) == x % 256

\* d.Truncate(m) for m a number of seconds, as a number of seconds
Truncate(d, m) ==
    IF d.sec >= 0
    THEN d.sec - (d.sec % m)
    ELSE LET whole == IF d.nsec = 0 THEN -d.sec ELSE (-d.sec) - 1
         IN  -(whole - (whole % m))

ParseValidityPeriod(b) ==
    IF b = 0 THEN Dur(0)
    ELSE IF b <= 6 THEN Dur(b * 10 * Second)
    ELSE IF b <= 10 THEN Dur((b - 5) * Minute)
    ELSE IF b <= 16 THEN Dur((b - 10) * 10 * Minute)
    ELSE IF b <= 21 THEN Dur((b - 15) * Hour)
    ELSE IF b <= 24 THEN Dur((b - 20) * 6 * Hour)
    ELSE IF b <= 30 THEN Dur((b - 24) * 48 * Hour)
    ELSE InfinitelyValid

\* variant: a remainder is dropped
IncIfRemainderNever(d, res, rdur) == res

\* incIfRemainder: result++ if d - resultDuration > 0
IncIfRemainder(d, res, rdur) ==
    IF ~DurLe(d, Dur(rdur)) THEN Byte(res + 1) ELSE res

\* ValidityPeriod.Encode: the byte returned
Encode(d) ==
    IF DurIsZero(d) THEN 0
    ELSE IF DurLe(d, Dur(Minute)) THEN
        LET res == Byte(Quot(Quot(Truncate(d, Second), Second), 10))
        IN  IncIfRemainder(d, res, res * 10 * Second)
    ELSE IF DurLe(d, Dur(5 * Minute)) THEN
        LET res == Byte(Quot(Truncate(d, Minute), Minute))
        IN  Byte(IncIfRemainder(d, res, res * Minute) + 5)
    ELSE IF DurLe(d, Dur(Hour)) THEN
        LET res == Byte(Quot(Quot(Truncate(d, Minute), Minute), 10))
        IN  Byte(IncIfRemainder(d, res, res * 10 * Minute) + 10)
    ELSE IF DurLe(d, Dur(6 * Hour)) THEN
        LET res == Byte(Quot(Truncate(d, Hour), Hour))
        IN  Byte(IncIfRemainder(d, res, res * Hour) + 15)
    ELSE IF DurLe(d, Dur(24 * Hour)) THEN
        LET res == Byte(Quot(Quot(Truncate(d, Hour), Hour), 6))
        IN  Byte(IncIfRemainder(d, res, res * 6 * Hour) + 20)
    ELSE IF DurLe(d, Dur(12 * 24 * Hour)) THEN
        LET res == Byte(Quot(Quot(Truncate(d, Hour), Hour), 48))
        IN  Byte(IncIfRemainder(d, res, res * 48 * Hour) + 24)
    ELSE 31

\* ---- the inputs

Codes == 0..31

\* the durations of the table, the middle between two of them, and up to
\* MaxSlack seconds around each
TableSeconds == {ParseValidityPeriod(c).sec : c \in 0..30}
MiddleSeconds ==
    {(ParseValidityPeriod(c).sec + ParseValidityPeriod(c + 1).sec) \div 2 : c \in 0..29}
SampleSeconds ==
    {s + k : s \in TableSeconds \cup MiddleSeconds, k \in (-MaxSlack)..MaxSlack} \cap Nat
Durations ==
    {[sec |-> s, nsec |-> n] : s \in SampleSeconds, n \in {0, 1, NanosPerSecond - 1}}

VpInit ==
    /\ ComInit
    /\ NewStack
    /\ ReIdle
    /\ SdsIdle
    /\ \/ /\ vpPc = "code"
          /\ vpCode \in Codes
          /\ vpDur = Dur(0)
       \/ /\ vpPc = "duration"
          /\ vpCode = 0
          /\ vpDur \in Durations
    /\ vpOut = 0

\* p := ParseValidityPeriod(c)
VpParse ==
    /\ UNCHANGED vpFrame
    /\ vpPc = "code"
    /\ vpDur' = ParseValidityPeriod(vpCode)
    /\ vpPc' = "parsed"
    /\ UNCHANGED <<vpCode, vpOut>>

\* bytes, _ := p.Encode()
VpEncode ==
    /\ UNCHANGED vpFrame
    /\ vpPc \in {"parsed", "duration"}
    /\ vpOut' = Encode(vpDur)
    /\ vpPc' = IF vpPc = "parsed" THEN "round trip" ELSE "encoded"
    /\ UNCHANGED <<vpCode, vpDur>>

VpNext == VpParse \/ VpEncode

VpSpec == VpInit /\ [][VpNext]_vars

\* C19 (as stated): for every validity-period code c in 0..31, encoding the
\* duration returned by ParseValidityPeriod(c) yields c again.
C19_RoundTrip == vpPc = "round trip" => vpOut = vpCode

\* the same for the codes 0..30, where it holds
C19_RoundTripOfFinitePeriods ==
    (vpPc = "round trip" /\ vpCode <= 30) => vpOut = vpCode

C19_Reached == vpPc = "round trip" /\ vpCode = 30 /\ vpOut = 30

\* ---- C20

\* the smallest code of 0..30 whose decoded duration is at least d, 31 if none
SmallestCode(d) ==
    LET enough == {c \in 0..30 : DurLe(d, ParseValidityPeriod(c))}
    IN  IF enough = {} THEN 31 ELSE CHOOSE c \in enough : \A e \in enough : c <= e

\* C20: for every duration d >= 0, Encode returns the smallest code in 0..30
\* whose decoded duration is at least d (a positive remainder above a table
\* value rounds up to the next code, across the regions of the table too),
\* it returns 31 for every d above 12 days, and the code returned is monotone
\* non-decreasing in d.
C20_SmallestCodeThatCovers ==
    (vpPc = "encoded" /\ DurLe(Dur(0), vpDur)) =>
        /\ vpOut = SmallestCode(vpDur)
        /\ ~DurLe(vpDur, Dur(12 * 24 * Hour)) => vpOut = 31
        /\ DurLe(vpDur, Dur(12 * 24 * Hour)) =>
              /\ vpOut \in 0..30
              /\ DurLe(vpDur, ParseValidityPeriod(vpOut))
              /\ vpOut > 0 => ~DurLe(vpDur, ParseValidityPeriod(vpOut - 1))
        /\ \A e \in Durations : DurLe(e, vpDur) => Encode(e) <= vpOut

\* one nanosecond above one minute, the end of the first region, gives the
\* code of two minutes
C20_Witness ==
    /\ vpPc = "encoded"
    /\ vpDur = [sec |-> 60, nsec |-> 1]
    /\ vpOut = 7

(***************************************************************************)
(* ParseIncomingMessage: the header line and the hex line of an incoming   *)
(* SDS are turned into an IncomingMessage.  Strings are sequences of       *)
(* characters, PDUs sequences of bytes.                                    *)
(***************************************************************************)
\* the longest PDU that is varied freely
MaxPdu == 3

\* a & b and a | b on bytes
RECURSIVE BitAnd(_, _)
BitAnd(a, b) ==
    IF a = 0 \/ b = 0
    THEN 0
    ELSE 2 * BitAnd(a \div 2, b \div 2) + (IF a % 2 = 1 /\ b % 2 = 1 THEN 1 ELSE 0)

BitOr(a, b) == a + b - BitAnd(a, b)

\* strings.Split(s, ","), with the field collected so far
RECURSIVE SplitFields(_, _)
SplitFields(s, field) ==
    IF s = <<>>
    THEN <<field>>
    ELSE IF Head(s) = ","
         THEN <<field>> \o SplitFields(Tail(s), <<>>)
         ELSE SplitFields(Tail(s), Append(field, Head(s)))

DecimalDigits == <<"0","1","2","3","4","5","6","7","8","9">>

Index(digits, ch) ==
    IF \E i \in 1..Len(digits) : digits[i] = ch
    THEN (CHOOSE i \in 1..Len(digits) : digits[i] = ch) - 1
    ELSE -1

RECURSIVE DecValue(_, _)
DecValue(s, acc) ==
    IF s = <<>> THEN acc ELSE DecValue(Tail(s), 10 * acc + Index(DecimalDigits, Head(s)))

\* strconv.Atoi: an optional sign and at least one decimal digit
Atoi(s) ==
    LET signed == s # <<>> /\ Head(s) \in {"+", "-"}
        digits == IF signed THEN Tail(s) ELSE s
    IN  IF digits = <<>> \/ \E i \in 1..Len(digits) : Index(DecimalDigits, digits[i]) < 0
        THEN [err |-> "invalid syntax", n |-> 0]
        ELSE [err |-> "",
              n   |-> IF signed /\ Head(s) = "-"
                      THEN 0 - DecValue(digits, 0)
                      ELSE DecValue(digits, 0)]

CTSDSR == <<"+","C","T","S","D","S","R",":">>

SDSTLService  == <<"1","2">>
StatusService == <<"1","3">>
OtherService  == <<"9">>

\* ParseHeader: the fields are counted, the first is the AI service and the
\* length is the third, fourth or sixth
ParseHeader(s) ==
    IF ~HasPrefix(s, CTSDSR)
    THEN [err |-> "invalid header, +CTSDSR expected"]
    ELSE LET headerFields == SplitFields(SubSeq(s, Len(CTSDSR) + 1, Len(s)), <<>>)
             n            == Len(headerFields)
         IN  IF n \notin {3, 4, 6, 7}
             THEN [err |-> "invalid header, wrong field count"]
             ELSE LET pduBitCountField ==
                          headerFields[IF n = 3 THEN 3 ELSE IF n = 4 THEN 4 ELSE 6]
                      count == Atoi(TrimSpace(pduBitCountField))
                  IN  IF count.err # ""
                      THEN [err |-> "invalid PDU bit count"]
                      ELSE [err         |-> "",
                            AIService   |-> TrimSpace(headerFields[1]),
                            Source      |-> IF n \in {6, 7}
                                            THEN TrimSpace(headerFields[2])
                                            ELSE <<>>,
                            Destination |-> TrimSpace(headerFields[IF n \in {6, 7}
                                                                   THEN 4 ELSE 2]),
                            PDUBits     |-> count.n]

\* Header.PDUBytes; / and % of Go round towards zero
PDUBytes(h) ==
    LET res == Quot(h.PDUBits, 8)
    IN  IF h.PDUBits - 8 * res # 0 THEN res + 1 ELSE res

LowerHexDigits == <<"0","1","2","3","4","5","6","7","8","9","a","b","c","d","e","f">>

\* the value of a hex digit, -1 for any other character
HexValue(ch) ==
    IF Index(HexDigits, ch) >= 0 THEN Index(HexDigits, ch) ELSE Index(LowerHexDigits, ch)

\* tetra.HexToBinary: white space is removed, then every two digits make a byte
HexToBinary(s) ==
    LET sanitized == SelectSeq(s, LAMBDA ch : ~IsSpace(ch))
    IN  IF \E i \in 1..Len(sanitized) : HexValue(sanitized[i]) < 0
        THEN [err |-> "encoding/hex: invalid byte", bytes |-> <<>>]
        ELSE IF Len(sanitized) % 2 = 1
             THEN [err |-> "encoding/hex: odd length hex string", bytes |-> <<>>]
             ELSE [err   |-> "",
                   bytes |-> [i \in 1..(Len(sanitized) \div 2) |->
                                 16 * HexValue(sanitized[2 * i - 1])
                                     + HexValue(sanitized[2 * i])]]

SDSAcknowledgeMessage == 2

SDSShortReportPDUIdentifier == 122

\* ParseSDSShortReport
ParseSDSShortReport(bytes) ==
    IF Len(bytes) # 2
    THEN [err |-> "SDS-SHORT-REPORT PDU invalid length"]
    ELSE IF BitAnd(bytes[1], SDSShortReportPDUIdentifier) # SDSShortReportPDUIdentifier
         THEN [err |-> "SDS-SHORT-REPORT PDU invalid PDU identifier"]
         ELSE [err |-> "",
               Payload |-> [kind             |-> "SDSShortReport",
                            ReportType       |-> BitAnd(bytes[1], 3),
                            MessageReference |-> bytes[2]]]

\* the test of ParseStatus for an SDS-SHORT-REPORT
IsShortReport(b) == BitAnd(b, SDSShortReportPDUIdentifier) = SDSShortReportPDUIdentifier

\* ParseStatus
ParseStatus(bytes) ==
    IF Len(bytes) < 2
    THEN [err |-> "status value too short"]
    ELSE IF IsShortReport(bytes[1])
         THEN ParseSDSShortReport(bytes)
         ELSE [err |-> "",
               Payload |-> [kind |-> "Status", Value |-> 256 * bytes[1] + bytes[2]]]

\* SDSShortReport.Encode, with MessageReference.Encode
SDSShortReportEncode(r) ==
    LET byte0 == Byte(BitOr(124, r.ReportType))
        bytes == <<byte0, r.MessageReference>>
    IN  [bytes |-> bytes, bits |-> 8 * Len(bytes)]

\* ParseSDSAcknowledge
ParseSDSAcknowledge(bytes) ==
    IF Len(bytes) < 4
    THEN [err |-> "SDS-ACK PDU too short"]
    ELSE [err |-> "",
          Payload |-> [kind             |-> "SDSAcknowledge",
                       protocol         |-> bytes[1],
                       DeliveryStatus   |-> bytes[3],
                       MessageReference |-> bytes[4]]]

\* ParseSDSReport of a PDU without store and forward control
ParseSDSReport(bytes) ==
    IF Len(bytes) < 4
    THEN [err |-> "SDS-REPORT PDU too short"]
    ELSE LET userdataStart == 4
         IN  [err |-> "",
              Payload |-> [kind             |-> "SDSReport",
                           protocol         |-> bytes[1],
                           AckRequired      |-> BitAnd(bytes[2], 8) # 0,
                           DeliveryStatus   |-> bytes[3],
                           MessageReference |-> bytes[4],
                           UserData         |-> IF userdataStart < Len(bytes)
                                                THEN SubSeq(bytes, userdataStart + 1,
                                                            Len(bytes))
                                                ELSE <<>>]]

\* parseSDSTLMessage of a PDU that is not an SDS-TRANSFER
parseSDSTLMessage(bytes) ==
    IF Len(bytes) < 2
    THEN [err |-> "payload too short"]
    ELSE LET messageType == bytes[2] \div 16
         IN  CASE messageType = SDSReportMessage      -> ParseSDSReport(bytes)
               [] messageType = SDSAcknowledgeMessage -> ParseSDSAcknowledge(bytes)
               [] OTHER -> [err |-> "SDS-TL message type is not supported"]

\* ParseSDSTLPDU of a PDU that is not a simple text message
ParseSDSTLPDU(bytes) ==
    IF Len(bytes) = 0
    THEN [err |-> "empty payload"]
    ELSE IF bytes[1] \in {TextMessaging, ImmediateTextMessaging, UserDataHeaderMessaging,
                          ConcatenatedSDSMessaging, Callout}
         THEN parseSDSTLMessage(bytes)
         ELSE [err |-> "protocol not supported"]

\* what a call that panics leaves behind
Panic == [err |-> "panic: slice bounds out of range"]

\* ParseIncomingMessage; pdu is the slice that was handed to the parser of
\* the service
ParseIncomingMessage(headerString, pduHex) ==
    LET header  == ParseHeader(headerString)
        decoded == HexToBinary(pduHex)
    IN  IF header.err # ""
        THEN [err |-> header.err]
        ELSE IF decoded.err # ""
        THEN [err |-> "cannot decode hex PDU data"]
        ELSE IF Len(decoded.bytes) > PDUBytes(header) /\ PDUBytes(header) < 0
        THEN Panic
        ELSE LET pduBytes == IF Len(decoded.bytes) > PDUBytes(header)
                             THEN SubSeq(decoded.bytes, 1, PDUBytes(header))
                             ELSE decoded.bytes
                 parsed   == CASE header.AIService = SDSTLService  -> ParseSDSTLPDU(pduBytes)
                               [] header.AIService = StatusService -> ParseStatus(pduBytes)
                               [] OTHER -> [err |-> "AI service is not supported"]
             IN  IF parsed.err # ""
                 THEN [err |-> parsed.err, pdu |-> pduBytes]
                 ELSE [err     |-> "",
                       Header  |-> [AIService   |-> header.AIService,
                                    Source      |-> header.Source,
                                    Destination |-> header.Destination,
                                    PDUBits     |-> header.PDUBits],
                       Payload |-> parsed.Payload,
                       pdu     |-> pduBytes]

(***************************************************************************)
(* The header lines and hex lines that are parsed.                         *)
(***************************************************************************)
RECURSIVE Join(_)
Join(fields) ==
    IF Len(fields) = 0 THEN <<>>
    ELSE IF Len(fields) = 1 THEN fields[1]
    ELSE fields[1] \o <<",">> \o Join(Tail(fields))

HeaderLine(fields) == CTSDSR \o <<" ">> \o Join(fields)

Services == {SDSTLService, StatusService, OtherService}

\* bit counts on, just above and just below a byte boundary
BitCounts == {8 * k + r : k \in 0..(MaxPdu + 2), r \in {0, 1, 7}}

HeaderLines ==
    {HeaderLine(<<s, IdentityA, <<"0">>, IdentityB, <<"0">>, DecDigits(b)>>) :
        s \in Services, b \in BitCounts}
    \cup {HeaderLine(<<s, IdentityB, <<" ">> \o DecDigits(16)>>) : s \in Services}
    \cup {HeaderLine(<<s, IdentityB, <<"0">>, DecDigits(16)>>) : s \in Services}
    \cup {HeaderLine(<<s, IdentityA, <<"0">>, IdentityB, <<"0">>, DecDigits(16), <<"0">>>>) :
            s \in Services}
    \cup {HeaderLine(<<StatusService, IdentityA, <<"0">>, IdentityB, DecDigits(16)>>),
          HeaderLine(<<StatusService, IdentityB, <<"x">>>>),
          HeaderLine(<<StatusService, IdentityB, <<"-","1","7">>>>),
          Join(<<StatusService, IdentityB, DecDigits(16)>>)}

SeqsUpTo(S, k) == UNION {[1..n -> S] : n \in 0..k}

\* PDUs of the status service: statuses and SDS-SHORT-REPORTs
StatusPdus == SeqsUpTo({124, 126, 128, 6}, MaxPdu)

\* PDUs of the SDS-TL service: SDS-REPORT, SDS-ACK and what is rejected
TLPdus ==
    {<<TextMessaging>>, <<126, 16>>}
    \cup {<<TextMessaging, b>> \o t : b \in {16, 24, 32, 48}, t \in SeqsUpTo({0, Reference}, MaxPdu)}

\* the hex lines for a PDU: as BinaryToHex writes it, with white space, in
\* lower case digits, one digit short and with a character that is no digit
HexLines(pdu) ==
    LET hex == BinaryToHex(pdu)
    IN  {hex, <<" ">> \o hex \o <<CR>>, hex \o <<"G","0">>}
        \cup (IF hex = <<>> THEN {} ELSE {SubSeq(hex, 1, Len(hex) - 1),
                                          <<hex[1], " ">> \o Tail(hex)})

ShortReports == [ReportType : 0..3, MessageReference : {0, 1, Reference, 255}]

PiInit ==
    /\ ComInit
    /\ NewStack
    /\ ReIdle
    /\ VpIdle
    /\ DsIdle
    /\ SpIdle
    /\ piResult = Nil
    /\ \/ /\ piPc = "line"
          /\ piReport = Nil
          /\ piHeader \in HeaderLines
          /\ \E pdu \in StatusPdus \cup TLPdus : piHex \in HexLines(pdu)
       \/ /\ piPc = "report"
          /\ piReport \in ShortReports
          /\ piHeader = <<>>
          /\ piHex = <<>>

\* the report is encoded and sent as a message of the status service
PiEncode ==
    /\ piPc = "report"
    /\ LET pdu == SDSShortReportEncode(piReport)
       IN  /\ piHex' = BinaryToHex(pdu.bytes)
           /\ piHeader' = HeaderLine(<<StatusService, IdentityA, <<"0">>, IdentityB, <<"0">>,
                                      DecDigits(pdu.bits)>>)
    /\ piPc' = "line"
    /\ UNCHANGED <<piReport, piResult>>
    /\ UNCHANGED piFrame

PiParse ==
    /\ piPc = "line"
    /\ piResult' = ParseIncomingMessage(piHeader, piHex)
    /\ piPc' = "parsed"
    /\ UNCHANGED <<piReport, piHeader, piHex>>
    /\ UNCHANGED piFrame

PiNext == PiEncode \/ PiParse

PiSpec == PiInit /\ [][PiNext]_vars

(***************************************************************************)
(* C21.  The PDU is bounded by the declared length.                        *)
(***************************************************************************)
\* the header of the line that was parsed, and the bytes of its hex line
PiHeaderOf == ParseHeader(piHeader)
PiDecoded  == HexToBinary(piHex)

\* both lines could be read and the header declares a length that is no
\* negative number
PiReadable ==
    /\ piPc = "parsed"
    /\ PiHeaderOf.err = ""
    /\ PiDecoded.err = ""
    /\ PiHeaderOf.PDUBits >= 0

\* ceil(bits/8)
DeclaredBytes == (PiHeaderOf.PDUBits + 7) \div 8

\* C21: ParseIncomingMessage bounds the PDU by the declared length of
\* ceil(bits/8) bytes: a hex line of more bytes is cut to that length before it
\* is parsed, a hex line of fewer bytes makes the call return an error.
C21_BoundedByDeclaredLength ==
    PiReadable =>
        /\ Len(PiDecoded.bytes) > DeclaredBytes =>
              piResult.pdu = SubSeq(PiDecoded.bytes, 1, DeclaredBytes)
        /\ Len(PiDecoded.bytes) < DeclaredBytes => piResult.err # ""

\* the first half alone: excess bytes are dropped before the PDU is parsed,
\* and a PDU of the declared length or less is parsed as it is
C21_ExcessDropped ==
    PiReadable =>
        piResult.pdu = SubSeq(PiDecoded.bytes, 1,
                              IF Len(PiDecoded.bytes) > DeclaredBytes
                              THEN DeclaredBytes
                              ELSE Len(PiDecoded.bytes))

\* a hex line with excess bytes was cut and parsed
C21_Cut ==
    /\ PiReadable
    /\ Len(PiDecoded.bytes) > DeclaredBytes
    /\ piResult.err = ""
    /\ piResult.Payload.kind = "SDSShortReport"

\* a hex line of fewer bytes than declared was parsed without an error
C21_ShortAccepted ==
    /\ PiReadable
    /\ Len(PiDecoded.bytes) < DeclaredBytes
    /\ piResult.err = ""
    /\ piResult.Payload = [kind |-> "Status", Value |-> 32774]

(***************************************************************************)
(* C30.  An SDS-SHORT-REPORT that is encoded and parsed again.             *)
(***************************************************************************)
\* the report that was encoded has been received as a status message
PiReportParsed == piPc = "parsed" /\ piReport # Nil

PiSameReport ==
    /\ piResult.err = ""
    /\ piResult.Payload = [kind             |-> "SDSShortReport",
                           ReportType       |-> piReport.ReportType,
                           MessageReference |-> piReport.MessageReference]

\* C30: for every report type in 0..3 and every message reference, the two
\* bytes SDSShortReport.Encode produces are recognised by ParseStatus as an
\* SDS-SHORT-REPORT, not as a Status, and parse back to the same report type
\* and message reference.
C30_ShortReportRoundTrip == PiReportParsed => PiSameReport

\* the report types with bit 1 set come back as they were
C30_RoundTripOfTypesTwoAndThree ==
    (PiReportParsed /\ piReport.ReportType \in {2, 3}) => PiSameReport

\* the other report types come back as a Status value
C30_ParsedAsStatus ==
    (PiReportParsed /\ piReport.ReportType \in {0, 1}) =>
        /\ piResult.err = ""
        /\ piResult.Payload = [kind  |-> "Status",
                               Value |-> 256 * (124 + piReport.ReportType)
                                             + piReport.MessageReference]

C30_Reached ==
    /\ PiReportParsed
    /\ piReport.ReportType = 3
    /\ PiSameReport

(***************************************************************************)
(* C22.  The class predicates of DeliveryStatus.                           *)
(***************************************************************************)
\* DeliveryStatus.Success, TemporaryError, DataDeliveryFailed, FlowControl
\* and EndToEndControl, each the comparison of s & 0xE0 with a constant
Success(s)            == BitAnd(s, 224) = 0
TemporaryError(s)     == BitAnd(s, 224) = 32
DataDeliveryFailed(s) == BitAnd(s, 224) = 64
FlowControl(s)        == BitAnd(s, 224) = 6
EndToEndControl(s)    == BitAnd(s, 224) = 128

\* the named DeliveryStatus values, by the heading they are listed under
SuccessStatuses            == 0..6
TemporaryErrorStatuses     == 32..34
DataDeliveryFailedStatuses == (64..84) \cup (86..95)

DestinationMemoryFull      == 96
DestinationMemoryAvailable == 97
StartPendingMessages       == 98
NoPendingMessages          == 99

FlowControlStatuses ==
    {DestinationMemoryFull, DestinationMemoryAvailable, StartPendingMessages,
     NoPendingMessages}

StopSending  == 128
StartSending == 129

EndToEndControlStatuses == {StopSending, StartSending}

DsInit ==
    /\ ComInit
    /\ NewStack
    /\ ReIdle
    /\ VpIdle
    /\ PiIdle
    /\ SpIdle
    /\ dsPc = "status"
    /\ dsStatus \in 0..255
    /\ dsClass = Nil

\* the five predicates are called with the status
DsClassify ==
    /\ dsPc = "status"
    /\ dsClass' = [Success            |-> Success(dsStatus),
                   TemporaryError     |-> TemporaryError(dsStatus),
                   DataDeliveryFailed |-> DataDeliveryFailed(dsStatus),
                   FlowControl        |-> FlowControl(dsStatus),
                   EndToEndControl    |-> EndToEndControl(dsStatus)]
    /\ dsPc' = "classified"
    /\ UNCHANGED dsStatus
    /\ UNCHANGED dsFrame

DsNext == DsClassify

DsSpec == DsInit /\ [][DsNext]_vars

\* the upper three bits of the status
UpperBits == dsStatus \div 32

\* the upper three bits of the statuses listed under flow control
FlowControlBits == DestinationMemoryFull \div 32

\* C22: for every 8-bit delivery status the class predicates follow the upper
\* 3 bits (Success 000, TemporaryError 001, DataDeliveryFailed 010,
\* FlowControl the flow-control class, EndToEndControl 100), at most one
\* predicate holds, and each named status satisfies the predicate of the
\* class it is listed under.
C22_ClassPredicates ==
    dsPc = "classified" =>
        /\ dsClass.Success <=> UpperBits = 0
        /\ dsClass.TemporaryError <=> UpperBits = 1
        /\ dsClass.DataDeliveryFailed <=> UpperBits = 2
        /\ dsClass.FlowControl <=> UpperBits = FlowControlBits
        /\ dsClass.EndToEndControl <=> UpperBits = 4
        /\ Cardinality({c \in DOMAIN dsClass : dsClass[c]}) <= 1
        /\ dsStatus \in SuccessStatuses => dsClass.Success
        /\ dsStatus \in TemporaryErrorStatuses => dsClass.TemporaryError
        /\ dsStatus \in DataDeliveryFailedStatuses => dsClass.DataDeliveryFailed
        /\ dsStatus \in FlowControlStatuses => dsClass.FlowControl
        /\ dsStatus \in EndToEndControlStatuses => dsClass.EndToEndControl

\* the claim without FlowControl
C22_OtherClasses ==
    dsPc = "classified" =>
        /\ dsClass.Success <=> UpperBits = 0
        /\ dsClass.TemporaryError <=> UpperBits = 1
        /\ dsClass.DataDeliveryFailed <=> UpperBits = 2
        /\ dsClass.EndToEndControl <=> UpperBits = 4
        /\ Cardinality({c \in DOMAIN dsClass : dsClass[c]}) <= 1
        /\ dsStatus \in SuccessStatuses => dsClass.Success
        /\ dsStatus \in TemporaryErrorStatuses => dsClass.TemporaryError
        /\ dsStatus \in DataDeliveryFailedStatuses => dsClass.DataDeliveryFailed
        /\ dsStatus \in EndToEndControlStatuses => dsClass.EndToEndControl

\* FlowControl holds for no status
C22_FlowControlNeverHolds == dsPc = "classified" => ~dsClass.FlowControl

\* DestinationMemoryFull has been classified, and not as flow control
C22_MemoryFullUnclassified ==
    /\ dsPc = "classified"
    /\ dsStatus = DestinationMemoryFull
    /\ \A c \in DOMAIN dsClass : ~dsClass[c]

(***************************************************************************)
(* C23.  SplitToMaxBits.                                                   *)
(***************************************************************************)
\* the longest text that is split
MaxText == 4

Packed7Bit == 0
ISO8859_1  == 1
UTF16BE    == 26

\* BitsToTextBytes; / of Go rounds towards zero
BitsToTextBytes(encoding, bits) ==
    IF encoding = Packed7Bit THEN Quot(bits, 7) ELSE Quot(bits, 8)

\* the loop of SplitToMaxBits and the statement after it, for a
\* maxPartLength above zero
RECURSIVE SplitLoop(_, _, _)
SplitLoop(remainingText, maxPartLength, res) ==
    IF Len(remainingText) > maxPartLength
    THEN LET part == SubSeq(remainingText, 1, maxPartLength)
         IN  SplitLoop(SubSeq(remainingText, maxPartLength + 1, Len(remainingText)),
                       maxPartLength,
                       IF part # <<>> THEN Append(res, part) ELSE res)
    ELSE IF Len(remainingText) > 0 THEN Append(res, remainingText) ELSE res

\* SplitToMaxBits: the division by a maxPartLength of zero, the capacity
\* below zero and the slice to an index below zero panic
SplitToMaxBits(encoding, maxPDUBits, text) ==
    IF text = <<>>
    THEN [panic |-> "", parts |-> <<>>]
    ELSE LET maxPartLength == BitsToTextBytes(encoding, maxPDUBits)
         IN  IF maxPartLength = 0
             THEN [panic |-> "integer divide by zero"]
             ELSE IF Quot(Len(text), maxPartLength) + 1 < 0
             THEN [panic |-> "makeslice: cap out of range"]
             ELSE IF maxPartLength < 0
             THEN [panic |-> "slice bounds out of range"]
             ELSE [panic |-> "", parts |-> SplitLoop(text, maxPartLength, <<>>)]

SpInit ==
    /\ ComInit
    /\ NewStack
    /\ ReIdle
    /\ VpIdle
    /\ PiIdle
    /\ DsIdle
    /\ spPc = "text"
    /\ spEncoding \in {Packed7Bit, ISO8859_1, UTF16BE}
    /\ spMaxBits \in (0 - 9)..(8 * (MaxText + 1))
    /\ spText \in SeqsUpTo({"a", "b"}, MaxText)
    /\ spParts = Nil

SpSplit ==
    /\ spPc = "text"
    /\ spParts' = SplitToMaxBits(spEncoding, spMaxBits, spText)
    /\ spPc' = "split"
    /\ UNCHANGED <<spEncoding, spMaxBits, spText>>
    /\ UNCHANGED spFrame

SpNext == SpSplit

SpSpec == SpInit /\ [][SpNext]_vars

RECURSIVE Concat(_)
Concat(parts) == IF parts = <<>> THEN <<>> ELSE Head(parts) \o Concat(Tail(parts))

\* floor(max_bits/7) for Packed7Bit, floor(max_bits/8) otherwise
SpLimit == IF spEncoding = Packed7Bit THEN spMaxBits \div 7 ELSE spMaxBits \div 8

\* the call returned parts that are the text cut into pieces of SpLimit
\* characters
SpSplitsTheText ==
    /\ spParts.panic = ""
    /\ Concat(spParts.parts) = spText
    /\ \A i \in 1..Len(spParts.parts) :
          /\ Len(spParts.parts[i]) <= SpLimit
          /\ Len(spParts.parts[i]) > 0
          /\ i < Len(spParts.parts) => Len(spParts.parts[i]) = SpLimit
    /\ spText = <<>> => spParts.parts = <<>>

\* C23: for every encoding, every max_bits and every text SplitToMaxBits
\* terminates and returns, in order, parts whose concatenation is the text,
\* each of at most floor(max_bits/7) characters for Packed7Bit and
\* floor(max_bits/8) otherwise, all but the last of exactly that many, none
\* empty; the empty text yields the empty list.
C23_SplitsEveryText == spPc = "split" => SpSplitsTheText

\* the same when max_bits has room for a character, or the text is empty
C23_SplitsWhenACharacterFits ==
    (spPc = "split" /\ (SpLimit >= 1 \/ spText = <<>>)) => SpSplitsTheText

\* a text of three characters was split into parts of two
C23_Split ==
    /\ spPc = "split"
    /\ spEncoding = Packed7Bit
    /\ spMaxBits = 14
    /\ spParts = [panic |-> "", parts |-> <<(<<"a", "b">>), (<<"a">>)>>]

\* the call panicked on a max_bits below one character
C23_Panicked ==
    /\ spPc = "split"
    /\ spMaxBits \in 0..6
    /\ spParts = [panic |-> "integer divide by zero"]

(***************************************************************************)
(* C24.  Lines that were sent before the request of a command was written. *)
(***************************************************************************)
\* the step takes from the channel a line that the device sent in answer to
\* a request, before the request of the active command was written
LateLineStep == answer = "late" /\ lines # <<>> /\ lines' = Tail(lines)

\* C24: a line the device emits in response to a command A is never delivered
\* as part of the result of, or as the terminator of, another command B: a
\* line that was sent before the request of B was written neither completes B
\* nor is added to the lines of B.
C24_Step == LateLineStep => UNCHANGED commandVars

C24_LateLinesAreNotDelivered == [][C24_Step]_vars

\* a command is active and not cancelled, and the line that waits in the
\* channel was sent before its request was written
C24_LateLineWaits ==
    /\ answer = "late"
    /\ lines # <<>>
    /\ activeCommand \in Callers
    /\ ~ctxDone[activeCommand]
    /\ ~completed[activeCommand]

\* the late line is a terminator and no indication: the next LoopLine
\* completes the command with it
C24_LateTerminatorWaits ==
    /\ C24_LateLineWaits
    /\ activeIndication = Nil
    /\ loopPc = "select"
    /\ IsSuccessLine(Head(lines))

(***************************************************************************)
(* C25.  End-of-stream while a command is active.                          *)
(***************************************************************************)
\* the step in which the loop finds the line channel closed and exits
LoopExits == loopPc = "select" /\ loopPc' = "exited"

\* the call of caller c returns in the step
Returns(c) == pc[c] = "waiting" /\ pc'[c] # "waiting"

C25_Step ==
    /\ LoopExits => (UNCHANGED commandVars /\ activeCommand' = activeCommand)
    /\ \A c \in Callers :
          (loopPc = "exited" /\ activeCommand = c) =>
              /\ ~Delivered(c)
              /\ Returns(c) =>
                    /\ ctxDone[c]
                    /\ pc'[c] = "done"
                    /\ result'[c].kind = "cancelled"

\* after the exit the active command has nothing in its channels
C25_NothingDelivered ==
    \A c \in Callers :
        (loopPc = "exited" /\ activeCommand = c) => (response[c] = <<>> /\ err[c] = <<>>)

\* C25: when end-of-stream is reached while a command is active, the loop
\* exits without delivering a response or an error to that command, and its
\* AT call returns only when the context of the caller is cancelled.
C25_EndOfStreamLeavesTheCommand == [](C25_NothingDelivered) /\ [][C25_Step]_vars

\* the loop has exited with the command of a call that still waits and whose
\* context is not cancelled
C25_Witness ==
    /\ loopPc = "exited"
    /\ \E c \in Callers :
          /\ activeCommand = c
          /\ pc[c] = "waiting"
          /\ written[c] # <<>>
          /\ ~ctxDone[c]

(***************************************************************************)
(* C26.  An AT call with an empty request.                                 *)
(***************************************************************************)
\* the step takes the command of caller c from the command queue
Dequeued(c) == pc[c] = "sending" /\ pc'[c] = "waiting"

\* the empty request of caller c was taken and its call awaits the result
EmptyWaits(c) == pc[c] = "waiting" /\ request[c] = <<>>

C26_State ==
    \A c \in Callers :
        EmptyWaits(c) =>
            /\ written[c] = <<>>
            /\ response[c] = <<>>
            /\ err[c] = <<>>
            /\ activeCommand # c
            /\ commandCancelled # c

C26_Step ==
    \A c \in Callers :
        /\ (Dequeued(c) /\ request[c] = <<>>) =>
              /\ written' = written
              /\ activeCommand' = NoCommand
              /\ commandCancelled' = NoCommand
        /\ (EmptyWaits(c) /\ Returns(c)) =>
              /\ ctxDone[c]
              /\ pc'[c] = "done"
              /\ result'[c].kind = "cancelled"

\* the next command can be taken by the next iteration
C26_NextCanBeDequeued ==
    \A c, d \in Callers :
        (EmptyWaits(c) /\ pc[d] = "sending" /\ loopPc = "select"
            /\ activeCommand = NoCommand) => ENABLED (LoopTick /\ Dequeued(d))

\* C26: an AT call with an empty request is taken from the command queue,
\* nothing is written and no command becomes active; the transport never
\* delivers a response or an error for it, the call returns only when its
\* context is cancelled, and the next queued command can be dequeued at the
\* next loop iteration.
C26_EmptyRequest == [](C26_State /\ C26_NextCanBeDequeued) /\ [][C26_Step]_vars

\* while the call with the empty request waits, the command of another
\* caller was taken and written
C26_Witness ==
    \E c, d \in Callers :
        /\ EmptyWaits(c)
        /\ ~ctxDone[c]
        /\ activeCommand = d
        /\ d # c
        /\ written[d] # <<>>

(***************************************************************************)
(* C27.  The indication a line starts.                                     *)
(***************************************************************************)
\* the transport with registrations that overlap
OverlapInit ==
    /\ ComInitWith(OverlapRegistry)
    /\ NewStack
    /\ ReIdle
    /\ VpIdle
    /\ SdsIdle

OverlapSpec == OverlapInit /\ [][Next]_vars

\* the step is the iteration for a line, and the indication registered
\* under prefix k takes the line: it becomes the active indication or its
\* handler is called with the line
Takes(k) ==
    /\ LoopLine
    /\ \/ activeIndication' # Nil /\ activeIndication'.config.prefix = k
       \/ loopPc' = "inHandler" /\ running'[Len(running')].prefix = k

\* from one state the line is taken by one indication only
C27_SameTaker ==
    \A k1, k2 \in DOMAIN indications :
        (ENABLED Takes(k1) /\ ENABLED Takes(k2)) => k1 = k2

\* when the handler called with a line returns, the line starts nothing else
C27_Step == HandlerReturned => (loopPc' = "select" /\ activeIndication' = Nil)

\* C27: each incoming line starts at most one indication, also for prefixes
\* of which one is a prefix of another: at most one handler is invoked on
\* account of the line, and which indication takes the line is the same in
\* every run with the same registrations and the same line.
C27_OneIndicationPerLine == [](C27_SameTaker) /\ [][C27_Step]_vars

\* for the registrations of the test, where no line matches two prefixes
C27_DistinctPrefixes == \A line \in DeviceLines : Cardinality(MatchingPrefixes(line)) <= 1

\* the handlers of two indications have been called with the same line, one
\* after the other
C27_SecondHandler ==
    /\ loopPc = "inHandler"
    /\ cont.rest # MatchingPrefixes(cont.line) \ {running[Len(running)].prefix}

(***************************************************************************)
(* C28.  What is pending while a message callback is registered.           *)
(***************************************************************************)
\* C28: with a message callback registered before the first Put, after every
\* Put no entry of the pending map is complete: every pending message has a
\* part that is not valid, and is stored under the key equal to its id.
C28_PendingIsIncomplete ==
    messageCallback =>
        \A id \in DOMAIN pendingMessages :
            /\ ~Complete(pendingMessages[id])
            /\ \E i \in 1..Len(pendingMessages[id].parts) :
                  ~pendingMessages[id].parts[i].Valid
            /\ pendingMessages[id].ID = id

\* a Put has stored a part of a message of which another part is missing
C28_Witness ==
    /\ messageCallback
    /\ put # NoPut
    /\ putErr = ""
    /\ messages = <<>>
    /\ \E id \in DOMAIN pendingMessages : ValidParts(pendingMessages[id]) # {}

\* a Put has handed a complete message of several parts to the callback and
\* nothing is pending
C28_Delivered ==
    /\ messageCallback
    /\ put # NoPut
    /\ IsPart(put)
    /\ TotalOf(put) > 1
    /\ messages # <<>>
    /\ pendingMessages = <<>>

(***************************************************************************)
(* C29.  A single-part text message and the pending map.                   *)
(***************************************************************************)
\* C29: a Put of an SDS-TRANSFER with a single-part TextSDU leaves the
\* pending map unchanged: it never removes or alters the pending entry of a
\* concatenated message, also when the message reference of the transfer is
\* the id of that entry.
C29_Step == (PutStep /\ IsTextTransfer(put')) => pendingMessages' = pendingMessages

C29_TextLeavesPendingUnchanged == [][C29_Step]_vars

\* the same for a stack with a message callback and a message reference
\* under which nothing is pending
C29_OtherReferenceStep ==
    (PutStep /\ IsTextTransfer(put') /\ messageCallback
        /\ put'.Payload.MessageReference \notin DOMAIN pendingMessages) =>
            pendingMessages' = pendingMessages

C29_OtherReference == [][C29_OtherReferenceStep]_vars

\* a text message was Put while parts of a concatenated message were
\* pending under its message reference, and nothing is pending any more
C29_EntryRemoved ==
    /\ messageCallback
    /\ put # NoPut
    /\ IsTextTransfer(put)
    /\ put.Payload.MessageReference = Reference
    /\ supplied # {}
    /\ pendingMessages = <<>>

====
